---- MODULE Spec2Model ----
(***************************************************************************)
(* TaskManager (src/src/task_manager.py): the aggregation ->               *)
(* deduplication -> scoring -> critical classification -> capacity filter  *)
(* -> recommendation pipeline.                                             *)
(*                                                                         *)
(* Strings are sequences of one-character strings.  Times are integers in  *)
(* units of 1/TicksPerDay of a day.  Scores are kept as integers: the      *)
(* energy and deadline multipliers are stored times ten, so attention_tax  *)
(* is the Python value times one hundred.                                  *)
(***************************************************************************)
EXTENDS Integers, Sequences, FiniteSets, TLC

VARIABLES
    pc,               \* position of the running operation
    min_tasks,        \* config['recommendations']['min_tasks']
    p1_flag,          \* config['critical_tasks']['p1_with_deadline_critical']
    capacity,         \* Capacity(energy, attention) of the call
    max_tasks,        \* max_tasks of the call (caller-supplied or configured)
    now,              \* datetime.now() read by _identify_critical_tasks
    tasks,            \* the input list of the operation (aggregate_tasks())
    unique_tasks,     \* deduplicate_tasks: the kept list
    idx,              \* deduplicate_tasks: index of the next incoming task
    merged_count,     \* deduplicate_tasks: number of merges
    first_result,     \* result of the previous deduplicate_tasks call
    calls,            \* number of deduplicate_tasks calls started
    all_tasks,        \* recommend_next_actions: scored tasks after backlog removal
    critical,         \* the 'critical' list / result of _identify_critical_tasks
    non_critical,     \* recommend_next_actions: non_critical, as left by the call
    matched,          \* matched_tasks: result of _filter_by_capacity, as left by the call
    recommended,      \* the 'recommended' list
    config,           \* config['attention_tax'] read by calculate_attention_tax
    scores,           \* values returned by the calculate_attention_tax calls
    task_id,          \* mark_complete: the task_id argument
    systems,          \* mark_complete: the systems argument, then the resolved list
    target_task,      \* mark_complete: target_task (empty for None)
    success_count,    \* mark_complete: success_count
    attempted,        \* mark_complete: the systems handled by the loop, with outcome
    result,           \* mark_complete: the returned value (empty until it returns)
    adapters,         \* per adapter: the state of its backing store and the tasks in it
    todoist_enabled,  \* config['todoist']['enabled']
    command,          \* the operation running: sync_dashboard, list or status
    note,             \* the daily note's content, as lines
    tasks_section,    \* the markdown of _generate_daily_tasks_markdown, as lines
    updated_note      \* the content sync_daily_note writes back, as lines

vars == <<pc, min_tasks, p1_flag, capacity, max_tasks, now, tasks, unique_tasks, idx,
          merged_count, first_result, calls, all_tasks, critical,
          non_critical, matched, recommended, config, scores, task_id, systems,
          target_task, success_count, attempted, result, adapters,
          todoist_enabled, command, note, tasks_section, updated_note>>

taxVars == <<config, scores>>

markVars == <<task_id, systems, target_task, success_count, attempted, result>>

sourceVars == <<adapters, todoist_enabled>>

noteVars == <<note, tasks_section, updated_note>>

(***************************************************************************)
(* Bounds of the model.                                                    *)
(***************************************************************************)
MaxTasks == 3          \* longest aggregated list
MaxMaxTasks == 2       \* largest max_tasks
MaxMinTasks == 2       \* largest configured min_tasks
TicksPerDay == 2       \* clock resolution: ticks in one day
MaxSystems == 2        \* longest systems argument of mark_complete

(***************************************************************************)
(* Generic sequence helpers.                                               *)
(***************************************************************************)
Min(a, b) == IF a <= b THEN a ELSE b

Max(a, b) == IF a >= b THEN a ELSE b

\* Python's  x in list  (identity or ==; dataclass == compares every field)
\* the ids of the tasks of a list
Ids(ts) == {ts[i].id : i \in 1..Len(ts)}

InList(x, s) == \E i \in 1..Len(s) : s[i] = x

\* Python's  s[:n]  for any integer n
SliceTo(s, n) ==
    IF n >= 0 THEN SubSeq(s, 1, Min(n, Len(s)))
    ELSE SubSeq(s, 1, Max(Len(s) + n, 0))

\* Python's  needle in haystack  for str
Contains(haystack, needle) ==
    \E i \in 0..(Len(haystack) - Len(needle)) :
        \A k \in 1..Len(needle) : haystack[i + k] = needle[k]

\* list.sort(key=...): Python's sort is stable, so element i of s lands after
\* the elements with a smaller key and the earlier elements with an equal key.
\* Less(a, b) is  key(a) < key(b).
SortedBy(s, Less(_, _)) ==
    LET n == Len(s)
        pos(i) == 1 + Cardinality({j \in 1..n : Less(s[j], s[i])})
                    + Cardinality({j \in 1..(i - 1) :
                                      ~Less(s[j], s[i]) /\ ~Less(s[i], s[j])})
    IN [p \in 1..n |-> s[CHOOSE i \in 1..n : pos(i) = p]]

(***************************************************************************)
(* str.lower(), str.strip() and difflib.SequenceMatcher.ratio().           *)
(***************************************************************************)
LowerChar(c) ==
    CASE c = "A" -> "a" [] c = "F" -> "f" [] c = "M" -> "m"
      [] c = "P" -> "p" [] c = "S" -> "s" [] c = "T" -> "t"
      [] OTHER -> c

Lower(s) == [i \in 1..Len(s) |-> LowerChar(s[i])]

IsSpace(c) == c \in {" ", "\t", "\n"}

RECURSIVE LStrip(_)
LStrip(s) == IF s # <<>> /\ IsSpace(s[1]) THEN LStrip(Tail(s)) ELSE s

RECURSIVE RStrip(_)
RStrip(s) ==
    IF s # <<>> /\ IsSpace(s[Len(s)]) THEN RStrip(SubSeq(s, 1, Len(s) - 1)) ELSE s

Strip(s) == LStrip(RStrip(s))

\* task.title.lower().strip()
NormTitle(title) == Strip(Lower(title))

\* a[i+1..i+k] = b[j+1..j+k]
BlockAt(a, b, i, j, k) ==
    /\ i + k <= Len(a)
    /\ j + k <= Len(b)
    /\ \A d \in 1..k : a[i + d] = b[j + d]

\* SequenceMatcher.find_longest_match without junk: the longest block, of
\* those the one starting earliest in a, of those the one earliest in b.
LongestLen(a, b) ==
    LET ks == {k \in 0..Min(Len(a), Len(b)) :
                  \E i \in 0..Len(a), j \in 0..Len(b) : BlockAt(a, b, i, j, k)}
    IN CHOOSE k \in ks : \A k2 \in ks : k2 <= k

LongestI(a, b, k) ==
    LET is == {i \in 0..Len(a) : \E j \in 0..Len(b) : BlockAt(a, b, i, j, k)}
    IN CHOOSE i \in is : \A i2 \in is : i <= i2

LongestJ(a, b, i, k) ==
    LET js == {j \in 0..Len(b) : BlockAt(a, b, i, j, k)}
    IN CHOOSE j \in js : \A j2 \in js : j <= j2

\* SequenceMatcher.get_matching_blocks: total size of the matching blocks
RECURSIVE Matches(_, _)
Matches(a, b) ==
    IF a = <<>> \/ b = <<>> THEN 0
    ELSE LET k == LongestLen(a, b)
         IN IF k = 0 THEN 0
            ELSE LET i == LongestI(a, b, k)
                     j == LongestJ(a, b, i, k)
                 IN k + Matches(SubSeq(a, 1, i), SubSeq(b, 1, j))
                      + Matches(SubSeq(a, i + k + 1, Len(a)),
                                SubSeq(b, j + k + 1, Len(b)))

\* SimilarEnough with a strict comparison:  ratio > 0.80
SimilarEnoughStrictly(a, b) ==
    LET T == Len(a) + Len(b)
    IN IF T = 0 THEN TRUE ELSE 2 * Matches(a, b) * 100 > 80 * T

\* SequenceMatcher(None, a, b).ratio() >= 0.80, ratio = 2.0*M/T (1.0 if T = 0)
SimilarEnough(a, b) ==
    LET T == Len(a) + Len(b)
    IN IF T = 0 THEN TRUE ELSE 2 * Matches(a, b) * 100 >= 80 * T

(***************************************************************************)
(* Task (dataclass) and its fields.                                        *)
(***************************************************************************)
\* due_date: None, or a datetime (naive, or timezone-aware)
NoDue == [has |-> FALSE, t |-> 0, aware |-> FALSE]

DueAt(t) == [has |-> TRUE, t |-> t, aware |-> FALSE]

DueAwareAt(t) == [has |-> TRUE, t |-> t, aware |-> TRUE]

\* midnight of day d, in ticks
Day(d) == d * TicksPerDay

\* metadata: the set of its keys, and the values of 'raw_line' and
\* 'merged_from' (read only when the key is present)
Meta(keys, raw_line) == [keys |-> keys, raw_line |-> raw_line, merged_from |-> <<>>]

NoMeta == Meta({}, <<>>)

Task(id, title, priority, energy, attention, due_date, source, metadata) ==
    [id |-> id, title |-> title, priority |-> priority, energy |-> energy,
     attention |-> attention, due_date |-> due_date, source_systems |-> <<source>>,
     attention_tax |-> 0, metadata |-> metadata]

Levels == {"low", "medium", "high"}

(***************************************************************************)
(* Configuration (config.yaml), as the docstrings of task_manager.py give  *)
(* it.                                                                     *)
(***************************************************************************)
priority_base == [P1 |-> 5, P2 |-> 4, P3 |-> 3, P4 |-> 2]

energy_multiplier == [low |-> 10, medium |-> 15, high |-> 20]

deadline_multiplier == [has_deadline |-> 15, no_deadline |-> 10]

due_within_days == 2

urgent_keywords == << <<"u", "r", "g", "e", "n", "t">>,
                     <<"a", "s", "a", "p">>,
                     <<"c", "r", "i", "t", "i", "c", "a", "l">>,
                     <<"b", "l", "o", "c", "k", "e", "r">>,
                     <<"b", "l", "o", "c", "k", "i", "n", "g">> >>

critical_tags == << <<"u", "r", "g", "e", "n", "c", "y", "/", "h", "i", "g", "h">>,
                   <<"i", "m", "p", "o", "r", "t", "a", "n", "c", "e", "/", "h", "i", "g", "h">> >>

BacklogMarker == <<"#", "b", "a", "c", "k", "l", "o", "g">>

\* config['attention_tax'] of the configuration file
attention_tax_config ==
    [priority_base |-> priority_base, energy_multiplier |-> energy_multiplier,
     deadline_multiplier |-> deadline_multiplier]

\* dict.get(key, default)
Get(d, key, default) == IF key \in DOMAIN d THEN d[key] ELSE default

(***************************************************************************)
(* The adapters' outputs the model draws from: an adapter returns tasks of *)
(* its pool, in the order of its backing store.                            *)
(***************************************************************************)
\* ObsidianIntegration.get_tasks(): id, title, tags and due date of one line each
ObsidianPool == <<
    Task("obs_1", <<"P", "a", "y", " ", "t", "a", "x">>,
         "P1", "low", "low", NoDue, "obsidian",
         Meta({"raw_line", "line_number"}, <<"P", "a", "y", " ", "t", "a", "x", " ", "#", "P", "1">>)),
    Task("obs_2", <<"S", "o", "r", "t">>,
         "P4", "high", "high", NoDue, "obsidian",
         Meta({"raw_line", "line_number"}, <<"S", "o", "r", "t", " ", "#", "P", "4">>)),
    Task("obs_3", <<"M", "o", "w">>,
         "P3", "low", "low", NoDue, "obsidian",
         Meta({"raw_line", "line_number"}, <<"M", "o", "w">>)),
    Task("obs_4", <<"F", "i", "x", " ", "A", "S", "A", "P">>,
         "P3", "high", "medium", DueAt(Day(5)), "obsidian",
         Meta({"raw_line", "line_number"}, <<"F", "i", "x", " ", "A", "S", "A", "P", " ", "#", "d", "u", "e">>)),
    Task("obs_5", <<"M", "o", "v", "e", " ", "a", "s", "a", "p">>,
         "P1", "low", "low", DueAt(Day(1)), "obsidian",
         Meta({"raw_line", "line_number"}, <<"M", "o", "v", "e", " ", "a", "s", "a", "p", " ", "#", "b", "a", "c", "k", "l", "o", "g">>)),
    Task("obs_6", <<"P", "l", "a", "n">>,
         "P2", "medium", "high", NoDue, "obsidian",
         Meta({"raw_line", "line_number"}, <<"P", "l", "a", "n", " ", "#", "u", "r", "g", "e", "n", "c", "y", "/", "h", "i", "g", "h">>)) >>

\* TodoistIntegration.get_tasks(): no raw_line; a timed due date is timezone-aware
TodoistPool == <<
    Task("todoist_1", <<"m", "o", "w">>,
         "P4", "medium", "medium", NoDue, "todoist",
         Meta({"todoist_id", "labels"}, <<>>)),
    Task("todoist_2", <<"P", "a", "y", " ", "t", "a", "x", "e", "s">>,
         "P2", "medium", "medium", DueAwareAt(Day(1) + 1), "todoist",
         Meta({"todoist_id", "labels"}, <<>>)) >>

\* ObsidianIntegration.get_daily_note_tasks(): P2, medium/medium, no due date
DailyNotePool == <<
    Task("daily_1", <<"T", "i", "d", "y">>,
         "P2", "medium", "medium", NoDue, "daily_note",
         Meta({"raw_line", "source"}, <<"T", "i", "d", "y">>)) >>

\* inputs of deduplicate_tasks: equal, similar and distinct titles (among them a
\* pair of ratio 8/10 and a pair of ratio 14/18); two tasks built by a caller,
\* one with empty metadata, one with two source systems
DedupPool == <<
    Task("obs_21", <<"P", "a", "y", " ", "t", "a", "x">>,
         "P1", "low", "low", DueAt(Day(9)), "obsidian",
         Meta({"raw_line", "line_number"}, <<"P", "a", "y", " ", "t", "a", "x", " ", "#", "P", "1", " ", "#", "d", "u", "e">>)),
    Task("todoist_21", <<"P", "a", "y", " ", "t", "a", "x", "e", "s">>,
         "P2", "medium", "medium", NoDue, "todoist",
         Meta({"todoist_id", "labels"}, <<>>)),
    Task("todoist_22", <<"P", "a", "y", " ", "t", "a", "x", "e", "s", " ", "n", "o", "w">>,
         "P4", "medium", "medium", NoDue, "todoist",
         Meta({"todoist_id", "labels"}, <<>>)),
    Task("obs_22", <<"M", "o", "w">>,
         "P3", "medium", "medium", DueAt(Day(1)), "obsidian",
         Meta({"raw_line", "line_number"}, <<"M", "o", "w", " ", "#", "d", "u", "e">>)),
    Task("core_21", <<"m", "o", "w", " ">>,
         "P3", "low", "low", NoDue, "daily_note",
         NoMeta),
    Task("daily_21", <<"M", "a", "p">>,
         "P2", "medium", "medium", NoDue, "daily_note",
         Meta({"raw_line", "source"}, <<"M", "a", "p">>)),
    Task("daily_22", <<"M", "o", "p">>,
         "P2", "medium", "medium", NoDue, "daily_note",
         Meta({"raw_line", "source"}, <<"M", "o", "p">>)),
    Task("obs_23", <<"P", "l", "a", "n">>,
         "P2", "high", "medium", NoDue, "obsidian",
         Meta({"raw_line", "line_number"}, <<"P", "l", "a", "n">>)),
    Task("todoist_23", <<"P", "l", "a", "n", " ", "a">>,
         "P3", "medium", "medium", NoDue, "todoist",
         Meta({"todoist_id", "labels"}, <<>>)),
    Task("todoist_24", <<"P", "a", "y", " ", "t", "a", "x", " ", "n", "o", "w">>,
         "P3", "medium", "medium", NoDue, "todoist",
         Meta({"todoist_id", "labels"}, <<>>)),
    [Task("core_22", <<"M", "o", "p", " ">>,
          "P4", "low", "medium", NoDue, "obsidian",
          Meta({"raw_line", "line_number"}, <<"M", "o", "p", " ">>))
        EXCEPT !.source_systems = <<"obsidian", "daily_note">>] >>

AllPools == ObsidianPool \o TodoistPool \o DailyNotePool \o DedupPool

\* SequenceMatcher decisions for the normalized titles of the pools, computed
\* once (the same values SimilarEnough gives)
PoolTitles == {NormTitle(AllPools[i].title) : i \in 1..Len(AllPools)}

SimilarityOfPool == [pair \in PoolTitles \X PoolTitles |-> SimilarEnough(pair[1], pair[2])]

Similar(a, b) ==
    IF <<a, b>> \in DOMAIN SimilarityOfPool THEN SimilarityOfPool[<<a, b>>]
    ELSE SimilarEnough(a, b)

(***************************************************************************)
(* deduplicate_tasks and _merge_duplicate.                                 *)
(***************************************************************************)
\* MergeSources that leaves the kept task's list as it was
MergeSourcesKeepsExisting(existing, incoming) == existing

\* MergeSources that appends every source of the duplicate, present or not
MergeSourcesAppendsAll(existing, incoming) == existing \o incoming

\* for source in duplicate.source_systems: append it unless already present
RECURSIVE MergeSources(_, _)
MergeSources(existing, incoming) ==
    IF incoming = <<>> THEN existing
    ELSE MergeSources(IF InList(Head(incoming), existing) THEN existing
                      ELSE Append(existing, Head(incoming)),
                      Tail(incoming))

MergeMetadata(existing, duplicate) ==
    IF duplicate.metadata.keys # {}
    THEN [existing.metadata EXCEPT
            !.keys = @ \cup {"merged_from"},
            !.merged_from = Append(@, [title |-> duplicate.title,
                                       sources |-> duplicate.source_systems,
                                       metadata |-> duplicate.metadata])]
    ELSE existing.metadata

\* MergeDuplicate that also takes the duplicate's levels and due date
MergeDuplicateLastWins(existing, duplicate) ==
    [existing EXCEPT
        !.source_systems = MergeSources(@, duplicate.source_systems),
        !.metadata = MergeMetadata(existing, duplicate),
        !.priority = duplicate.priority,
        !.energy = duplicate.energy,
        !.attention = duplicate.attention,
        !.due_date = duplicate.due_date]

MergeDuplicate(existing, duplicate) ==
    [existing EXCEPT
        !.source_systems = MergeSources(@, duplicate.source_systems),
        !.metadata = MergeMetadata(existing, duplicate)]

\* IsDuplicateOf without the fuzzy test
IsDuplicateOfExactOnly(task, unique_task) ==
    NormTitle(task.title) = NormTitle(unique_task.title)

\* the test of one kept task against the incoming one: exact, then fuzzy
IsDuplicateOf(task, unique_task) ==
    \/ NormTitle(task.title) = NormTitle(unique_task.title)
    \/ Similar(NormTitle(task.title), NormTitle(unique_task.title))

\* FirstMatch that picks the latest kept task that matches
LastMatch(unique, task) ==
    LET hits == {u \in 1..Len(unique) : IsDuplicateOf(task, unique[u])}
    IN IF hits = {} THEN 0 ELSE CHOOSE u \in hits : \A v \in hits : u >= v

\* index of the first kept task the incoming one merges into, 0 if none
FirstMatch(unique, task) ==
    LET hits == {u \in 1..Len(unique) : IsDuplicateOf(task, unique[u])}
    IN IF hits = {} THEN 0 ELSE CHOOSE u \in hits : \A v \in hits : u <= v

\* DedupStep that merges a duplicate and still appends it
DedupStepKeepsDuplicate(unique, task) ==
    LET u == FirstMatch(unique, task)
    IN IF u = 0 THEN Append(unique, task)
       ELSE Append([unique EXCEPT ![u] = MergeDuplicate(@, task)], task)

\* DedupStep that puts a task that matches none at the front of the kept list
DedupStepPrepends(unique, task) ==
    LET u == FirstMatch(unique, task)
    IN IF u = 0 THEN <<task>> \o unique
       ELSE [unique EXCEPT ![u] = MergeDuplicate(@, task)]

\* one iteration of  for task in tasks
DedupStep(unique, task) ==
    LET u == FirstMatch(unique, task)
    IN IF u = 0 THEN Append(unique, task)
       ELSE [unique EXCEPT ![u] = MergeDuplicate(@, task)]

RECURSIVE DedupFrom(_, _)
DedupFrom(unique, rest) ==
    IF rest = <<>> THEN unique ELSE DedupFrom(DedupStep(unique, Head(rest)), Tail(rest))

DeduplicateTasks(ts) == DedupFrom(<<>>, ts)

(***************************************************************************)
(* calculate_attention_tax.                                                *)
(***************************************************************************)
\* lines 288-292: the key read from config['deadline_multiplier']
DeadlineKey(task) == IF task.due_date.has THEN "has_deadline" ELSE "no_deadline"

\* config['deadline_multiplier'][key] raises KeyError for an absent key
TaxRaises(cfg, task) == DeadlineKey(task) \notin DOMAIN cfg.deadline_multiplier

\* AttentionTax that leaves the deadline multiplier out
AttentionTaxWithoutDeadline(cfg, task) ==
    Get(cfg.priority_base, task.priority, 2) * Get(cfg.energy_multiplier, task.energy, 10) * 10

\* lines 279-294, for config['attention_tax'] = cfg (the call does not raise)
AttentionTax(cfg, task) ==
    LET priority_score == Get(cfg.priority_base, task.priority, 2)
        energy_mult == Get(cfg.energy_multiplier, task.energy, 10)
        deadline_mult == cfg.deadline_multiplier[DeadlineKey(task)]
    IN priority_score * energy_mult * deadline_mult

\* calculate_attention_tax under the configuration file's values
CalculateAttentionTax(task) == AttentionTax(attention_tax_config, task)

(***************************************************************************)
(* _identify_critical_tasks.                                               *)
(***************************************************************************)
\* timedelta.days: whole days, rounded down
DaysUntil(due_date, n) == (due_date.t - n) \div TicksPerDay

HasUrgentKeyword(task) ==
    \E k \in 1..Len(urgent_keywords) : Contains(Lower(task.title), urgent_keywords[k])

HasCriticalTag(task) ==
    /\ "raw_line" \in task.metadata.keys
    /\ \E k \in 1..Len(critical_tags) :
          Contains(task.metadata.raw_line, <<"#">> \o critical_tags[k])

\* IsCritical with  days_until_due < due_within_days
IsCriticalStrictlyBefore(task, flag, n) ==
    \/ task.due_date.has /\ DaysUntil(task.due_date, n) < due_within_days
    \/ flag /\ task.priority = "P1" /\ task.due_date.has
    \/ HasUrgentKeyword(task)
    \/ HasCriticalTag(task)

IsCritical(task, flag, n) ==
    \/ task.due_date.has /\ DaysUntil(task.due_date, n) <= due_within_days
    \/ flag /\ task.priority = "P1" /\ task.due_date.has
    \/ HasUrgentKeyword(task)
    \/ HasCriticalTag(task)

\* datetime.max, the sort key of a task without a due date
DateMax == Day(9999 * 366)

\* CriticalKeyLess with the tie broken by ascending attention_tax
CriticalKeyLessAscendingTax(a, b) ==
    LET ka == IF a.due_date.has THEN a.due_date.t ELSE DateMax
        kb == IF b.due_date.has THEN b.due_date.t ELSE DateMax
    IN ka < kb \/ (ka = kb /\ a.attention_tax < b.attention_tax)

CriticalKeyLess(a, b) ==
    LET ka == IF a.due_date.has THEN a.due_date.t ELSE DateMax
        kb == IF b.due_date.has THEN b.due_date.t ELSE DateMax
    IN ka < kb \/ (ka = kb /\ (0 - a.attention_tax) < (0 - b.attention_tax))

\* due_date - now  raises TypeError for a timezone-aware due_date
SubtractRaises(ts) == \E i \in 1..Len(ts) : ts[i].due_date.has /\ ts[i].due_date.aware

IdentifyCriticalTasks(ts, flag, n) ==
    SortedBy(SelectSeq(ts, LAMBDA t : IsCritical(t, flag, n)), CriticalKeyLess)

(***************************************************************************)
(* _filter_by_capacity.                                                    *)
(***************************************************************************)
energy_levels == [low |-> 0, medium |-> 1, high |-> 2]

attention_levels == [low |-> 0, medium |-> 1, high |-> 2]

\* the earlier fuzzy match: each level within one step of the capacity
MatchesCapacityFuzzy(task, cap) ==
    /\ energy_levels[task.energy] - energy_levels[cap.energy] \in {0 - 1, 0, 1}
    /\ attention_levels[task.attention] - attention_levels[cap.attention] \in {0 - 1, 0, 1}

Matches_capacity(task, cap) ==
    /\ energy_levels[task.energy] <= energy_levels[cap.energy]
    /\ attention_levels[task.attention] <= attention_levels[cap.attention]

\* FilterByCapacity that compares the energy level only
FilterByCapacityEnergyOnly(ts, cap) ==
    SelectSeq(ts, LAMBDA t : energy_levels[t.energy] <= energy_levels[cap.energy])

FilterByCapacity(ts, cap) == SelectSeq(ts, LAMBDA t : Matches_capacity(t, cap))

(***************************************************************************)
(* recommend_next_actions.                                                 *)
(***************************************************************************)
IsBacklog(task) ==
    LET raw_line == IF task.metadata.keys # {} /\ "raw_line" \in task.metadata.keys
                    THEN task.metadata.raw_line ELSE <<>>
    IN Contains(raw_line, BacklogMarker)

\* FilterBacklog that keeps every task
FilterBacklogKeepsAll(ts) == ts

FilterBacklog(ts) == SelectSeq(ts, LAMBDA t : ~IsBacklog(t))

\* ScoreAll that leaves every task's attention_tax as the adapter created it
ScoreAllKeepsInitial(ts) == ts

ScoreAll(ts) ==
    [i \in 1..Len(ts) |-> [ts[i] EXCEPT !.attention_tax = CalculateAttentionTax(ts[i])]]

\* NonCritical without the exclusion of the critical tasks
NonCriticalKeepsCritical(ts, crit) == ts

NonCritical(ts, crit) == SelectSeq(ts, LAMBDA t : ~InList(t, crit))

TaxLess(a, b) == a.attention_tax < b.attention_tax

SortByTax(ts) == SortedBy(ts, TaxLess)

\* Backfill with the break test  len(recommendations) > min_tasks
RECURSIVE BackfillBreaksLate(_, _, _)
BackfillBreaksLate(recs, pool, minimum) ==
    IF pool = <<>> THEN recs
    ELSE IF InList(Head(pool), recs) THEN BackfillBreaksLate(recs, Tail(pool), minimum)
    ELSE IF Len(recs) + 1 > minimum THEN Append(recs, Head(pool))
    ELSE BackfillBreaksLate(Append(recs, Head(pool)), Tail(pool), minimum)

\* for task in non_critical: if task not in recommendations: append, and
\* break once min_tasks is reached
RECURSIVE Backfill(_, _, _)
Backfill(recs, pool, minimum) ==
    IF pool = <<>> THEN recs
    ELSE IF InList(Head(pool), recs) THEN Backfill(recs, Tail(pool), minimum)
    ELSE IF Len(recs) + 1 >= minimum THEN Append(recs, Head(pool))
    ELSE Backfill(Append(recs, Head(pool)), Tail(pool), minimum)

\* Recommendations whose backfill walks the non-critical tasks in list order
RecommendationsBackfillUnsorted(matched_sorted, non_crit, maximum, minimum) ==
    LET top == SliceTo(matched_sorted, maximum)
    IN IF Len(top) < minimum THEN Backfill(top, non_crit, minimum)
       ELSE top

Recommendations(matched_sorted, non_crit, maximum, minimum) ==
    LET top == SliceTo(matched_sorted, maximum)
    IN IF Len(top) < minimum THEN Backfill(top, SortByTax(non_crit), minimum)
       ELSE top

\* inputs of _identify_critical_tasks: scored tasks, one or none of the criteria each
CriticalPool == ScoreAll(<<
    Task("obs_11", <<"S", "o", "r", "t">>,
         "P3", "medium", "medium", DueAt(Day(1)), "obsidian",
         Meta({"raw_line", "line_number"}, <<"S", "o", "r", "t", " ", "#", "d", "u", "e">>)),
    Task("obs_12", <<"T", "i", "d", "y">>,
         "P2", "high", "low", DueAt(Day(1)), "obsidian",
         Meta({"raw_line", "line_number"}, <<"T", "i", "d", "y", " ", "#", "d", "u", "e">>)),
    Task("obs_13", <<"M", "o", "w">>,
         "P4", "low", "low", DueAt(Day(0 - 1)), "obsidian",
         Meta({"raw_line", "line_number"}, <<"M", "o", "w", " ", "#", "d", "u", "e">>)),
    Task("obs_14", <<"P", "l", "a", "n">>,
         "P3", "low", "high", DueAt(Day(3)), "obsidian",
         Meta({"raw_line", "line_number"}, <<"P", "l", "a", "n", " ", "#", "d", "u", "e">>)),
    Task("obs_15", <<"P", "a", "y", " ", "t", "a", "x">>,
         "P1", "low", "low", DueAt(Day(9)), "obsidian",
         Meta({"raw_line", "line_number"}, <<"P", "a", "y", " ", "t", "a", "x", " ", "#", "P", "1", " ", "#", "d", "u", "e">>)),
    Task("obs_16", <<"P", "a", "y", " ", "f", "e", "e", "s">>,
         "P1", "high", "high", NoDue, "obsidian",
         Meta({"raw_line", "line_number"}, <<"P", "a", "y", " ", "f", "e", "e", "s", " ", "#", "P", "1">>)),
    Task("obs_17", <<"F", "i", "x", " ", "A", "S", "A", "P">>,
         "P3", "high", "medium", DueAt(Day(5)), "obsidian",
         Meta({"raw_line", "line_number"}, <<"F", "i", "x", " ", "A", "S", "A", "P", " ", "#", "d", "u", "e">>)),
    Task("obs_18", <<"M", "a", "p">>,
         "P2", "high", "high", NoDue, "obsidian",
         Meta({"raw_line", "line_number"}, <<"M", "a", "p", " ", "#", "u", "r", "g", "e", "n", "c", "y", "/", "h", "i", "g", "h">>)),
    Task("obs_19", <<"u", "r", "g", "e", "n", "c", "y", "/", "h", "i", "g", "h">>,
         "P2", "medium", "medium", NoDue, "obsidian",
         Meta({"raw_line", "line_number"}, <<"u", "r", "g", "e", "n", "c", "y", "/", "h", "i", "g", "h">>)),
    Task("todoist_11", <<"P", "o", "s", "t">>,
         "P2", "medium", "medium", DueAwareAt(Day(1) + 1), "todoist",
         Meta({"todoist_id", "labels"}, <<>>)),
    Task("todoist_12", <<"s", "o", " ", "u", "r", "g", "e", "n", "t">>,
         "P4", "medium", "medium", NoDue, "todoist",
         Meta({"todoist_id", "labels"}, <<>>)) >>)

LevelSeq == <<"low", "medium", "high">>

CapacityIds == <<"cap_1", "cap_2", "cap_3", "cap_4", "cap_5", "cap_6", "cap_7",
                 "cap_8", "cap_9">>

\* inputs of _filter_by_capacity: one task for each energy/attention pair
CapacityPool ==
    [i \in 1..Len(CapacityIds) |->
        Task(CapacityIds[i], <<"S", "o", "r", "t">>, "P3",
             LevelSeq[((i - 1) \div 3) + 1], LevelSeq[((i - 1) % 3) + 1],
             NoDue, "obsidian", NoMeta)]

\* sequences of at most n distinct indices of a pool
InjSeqs(pool, n) ==
    {order \in UNION {[1..k -> 1..Len(pool)] : k \in 0..n} :
        \A i, j \in 1..Len(order) : i # j => order[i] # order[j]}

\* sequences of at most n indices of a pool
IdxSeqs(pool, n) == UNION {[1..k -> 1..Len(pool)] : k \in 0..n}

SubPool(pool, order) == [i \in 1..Len(order) |-> pool[order[i]]]

\* aggregate_tasks: Obsidian, then Todoist, then the daily note
AggregateTasks(obs, todo, daily) ==
    SubPool(ObsidianPool, obs) \o SubPool(TodoistPool, todo) \o SubPool(DailyNotePool, daily)

Capacities == [energy : Levels, attention : Levels]

Nows == 0..(TicksPerDay - 1)

NoCapacity == [energy |-> "medium", attention |-> "medium"]

\* the systems argument: None, or a list of names
NoSystems == [given |-> FALSE, names |-> <<>>]

\* no calculate_attention_tax call in progress
TaxIdle ==
    /\ config = attention_tax_config
    /\ scores = <<>>

\* an adapter whose backing store is readable and empty
EmptyStore == [state |-> "ok", content |-> <<>>]

\* the adapters are not consulted by the operation
SourcesIdle ==
    /\ adapters = [obsidian |-> EmptyStore, todoist |-> EmptyStore, daily_note |-> EmptyStore]
    /\ todoist_enabled = TRUE

\* no sync_daily_note call in progress
NoteIdle ==
    /\ note = <<>>
    /\ tasks_section = <<>>
    /\ updated_note = <<>>

\* no mark_complete call in progress
MarkIdle ==
    /\ task_id = ""
    /\ systems = NoSystems
    /\ target_task = <<>>
    /\ success_count = 0
    /\ attempted = <<>>
    /\ result = <<>>

(***************************************************************************)
(* Spec: one call of recommend_next_actions on a constructed TaskManager.  *)
(***************************************************************************)
Init ==
    /\ pc = "idle"
    /\ min_tasks \in 0..MaxMinTasks
    /\ p1_flag = TRUE
    /\ capacity = NoCapacity
    /\ max_tasks = 0
    /\ now = 0
    /\ tasks = <<>>
    /\ unique_tasks = <<>>
    /\ idx = 0
    /\ merged_count = 0
    /\ first_result = <<>>
    /\ calls = 0
    /\ all_tasks = <<>>
    /\ critical = <<>>
    /\ non_critical = <<>>
    /\ matched = <<>>
    /\ recommended = <<>>
    /\ TaxIdle
    /\ MarkIdle
    /\ SourcesIdle
    /\ command = ""
    /\ NoteIdle

\* lines 320-352: resolve capacity and max_tasks, aggregate, deduplicate,
\* drop the backlog tasks, score the rest
RecommendLoad ==
    /\ pc = "idle"
    /\ \E obs \in InjSeqs(ObsidianPool, MaxTasks),
          todo \in InjSeqs(TodoistPool, MaxTasks),
          daily \in InjSeqs(DailyNotePool, MaxTasks) :
        /\ Len(obs) + Len(todo) + Len(daily) <= MaxTasks
        /\ tasks' = AggregateTasks(obs, todo, daily)
    /\ unique_tasks' = DeduplicateTasks(tasks')
    /\ all_tasks' = ScoreAll(FilterBacklog(unique_tasks'))
    /\ capacity' \in Capacities
    /\ max_tasks' \in 0..MaxMaxTasks
    /\ pc' = "scored"
    /\ UNCHANGED <<min_tasks, p1_flag, now, idx, merged_count, first_result, calls,
                   critical, non_critical, matched, recommended>>
    /\ UNCHANGED <<taxVars, markVars>>
    /\ UNCHANGED <<sourceVars, command, noteVars>>

\* RecommendClassify with the critical list passed through the capacity filter
RecommendClassifyFiltersCritical ==
    /\ pc = "scored"
    /\ now' \in Nows
    /\ IF SubtractRaises(all_tasks)
       THEN /\ pc' = "raised"
            /\ UNCHANGED <<critical, non_critical>>
       ELSE /\ pc' = "classified"
            /\ critical' = FilterByCapacity(
                               IdentifyCriticalTasks(all_tasks, p1_flag, now'), capacity)
            /\ non_critical' = NonCritical(all_tasks, critical')
    /\ UNCHANGED <<min_tasks, p1_flag, capacity, max_tasks, tasks, unique_tasks,
                   idx, merged_count, first_result, calls, all_tasks, matched,
                   recommended>>
    /\ UNCHANGED <<taxVars, markVars>>
    /\ UNCHANGED <<sourceVars, command, noteVars>>

\* lines 354-359: _identify_critical_tasks and the non-critical complement
RecommendClassify ==
    /\ pc = "scored"
    /\ now' \in Nows
    /\ IF SubtractRaises(all_tasks)
       THEN /\ pc' = "raised"
            /\ UNCHANGED <<critical, non_critical>>
       ELSE /\ pc' = "classified"
            /\ critical' = IdentifyCriticalTasks(all_tasks, p1_flag, now')
            /\ non_critical' = NonCritical(all_tasks, critical')
    /\ UNCHANGED <<min_tasks, p1_flag, capacity, max_tasks, tasks, unique_tasks,
                   idx, merged_count, first_result, calls, all_tasks, matched,
                   recommended>>
    /\ UNCHANGED <<taxVars, markVars>>
    /\ UNCHANGED <<sourceVars, command, noteVars>>

\* lines 360-395: capacity filter, sort, truncation, backfill, return
RecommendSelect ==
    /\ pc = "classified"
    /\ matched' = SortByTax(FilterByCapacity(non_critical, capacity))
    /\ recommended' = Recommendations(matched', non_critical, max_tasks, min_tasks)
    /\ non_critical' = IF Len(SliceTo(matched', max_tasks)) < min_tasks
                       THEN SortByTax(non_critical) ELSE non_critical
    /\ pc' = "done"
    /\ UNCHANGED <<min_tasks, p1_flag, capacity, max_tasks, now, tasks,
                   unique_tasks, idx, merged_count, first_result, calls, all_tasks,
                   critical>>
    /\ UNCHANGED <<taxVars, markVars>>
    /\ UNCHANGED <<sourceVars, command, noteVars>>

Next ==
    \/ RecommendLoad
    \/ RecommendClassify
    \/ RecommendSelect

Spec == Init /\ [][Next]_vars

(***************************************************************************)
(* SpecCritical: _identify_critical_tasks called on a list of scored       *)
(* tasks.                                                                  *)
(***************************************************************************)
InitCritical ==
    /\ pc = "idle"
    /\ min_tasks = 0
    /\ p1_flag \in BOOLEAN
    /\ capacity = NoCapacity
    /\ max_tasks = 0
    /\ now = 0
    /\ \E order \in InjSeqs(CriticalPool, MaxTasks) : tasks = SubPool(CriticalPool, order)
    /\ unique_tasks = <<>>
    /\ idx = 0
    /\ merged_count = 0
    /\ first_result = <<>>
    /\ calls = 0
    /\ all_tasks = <<>>
    /\ critical = <<>>
    /\ non_critical = <<>>
    /\ matched = <<>>
    /\ recommended = <<>>
    /\ TaxIdle
    /\ MarkIdle
    /\ SourcesIdle
    /\ command = ""
    /\ NoteIdle

IdentifyCritical ==
    /\ pc = "idle"
    /\ now' \in Nows
    /\ IF SubtractRaises(tasks)
       THEN /\ pc' = "raised"
            /\ UNCHANGED critical
       ELSE /\ pc' = "done"
            /\ critical' = IdentifyCriticalTasks(tasks, p1_flag, now')
    /\ UNCHANGED <<min_tasks, p1_flag, capacity, max_tasks, tasks, unique_tasks,
                   idx, merged_count, first_result, calls, all_tasks,
                   non_critical, matched, recommended>>
    /\ UNCHANGED <<taxVars, markVars>>
    /\ UNCHANGED <<sourceVars, command, noteVars>>

NextCritical == IdentifyCritical

SpecCritical == InitCritical /\ [][NextCritical]_vars

(***************************************************************************)
(* SpecCapacity: _filter_by_capacity called on a task list and a Capacity. *)
(***************************************************************************)
InitCapacity ==
    /\ pc = "idle"
    /\ min_tasks = 0
    /\ p1_flag = TRUE
    /\ capacity \in Capacities
    /\ max_tasks = 0
    /\ now = 0
    /\ \E order \in InjSeqs(CapacityPool, MaxTasks) : tasks = SubPool(CapacityPool, order)
    /\ unique_tasks = <<>>
    /\ idx = 0
    /\ merged_count = 0
    /\ first_result = <<>>
    /\ calls = 0
    /\ all_tasks = <<>>
    /\ critical = <<>>
    /\ non_critical = <<>>
    /\ matched = <<>>
    /\ recommended = <<>>
    /\ TaxIdle
    /\ MarkIdle
    /\ SourcesIdle
    /\ command = ""
    /\ NoteIdle

FilterCapacity ==
    /\ pc = "idle"
    /\ matched' = FilterByCapacity(tasks, capacity)
    /\ pc' = "done"
    /\ UNCHANGED <<min_tasks, p1_flag, capacity, max_tasks, now, tasks,
                   unique_tasks, idx, merged_count, first_result, calls,
                   all_tasks, critical, non_critical, recommended>>
    /\ UNCHANGED <<taxVars, markVars>>
    /\ UNCHANGED <<sourceVars, command, noteVars>>

NextCapacity == FilterCapacity

SpecCapacity == InitCapacity /\ [][NextCapacity]_vars

(***************************************************************************)
(* SpecDedup: deduplicate_tasks, one loop iteration per step, then called  *)
(* again on its own result.                                                *)
(***************************************************************************)
InitDedup ==
    /\ pc = "dedup"
    /\ min_tasks = 0
    /\ p1_flag = TRUE
    /\ capacity = NoCapacity
    /\ max_tasks = 0
    /\ now = 0
    /\ \E order \in IdxSeqs(DedupPool, MaxTasks) : tasks = SubPool(DedupPool, order)
    /\ unique_tasks = <<>>
    /\ idx = 1
    /\ merged_count = 0
    /\ first_result = <<>>
    /\ calls = 1
    /\ all_tasks = <<>>
    /\ critical = <<>>
    /\ non_critical = <<>>
    /\ matched = <<>>
    /\ recommended = <<>>
    /\ TaxIdle
    /\ MarkIdle
    /\ SourcesIdle
    /\ command = ""
    /\ NoteIdle

\* lines 178-212: one iteration of  for task in tasks
DedupIterate ==
    /\ pc = "dedup"
    /\ idx <= Len(tasks)
    /\ unique_tasks' = DedupStep(unique_tasks, tasks[idx])
    /\ merged_count' = IF FirstMatch(unique_tasks, tasks[idx]) # 0
                       THEN merged_count + 1 ELSE merged_count
    /\ idx' = idx + 1
    /\ UNCHANGED <<pc, min_tasks, p1_flag, capacity, max_tasks, now, tasks,
                   first_result, calls, all_tasks, critical, non_critical,
                   matched, recommended>>
    /\ UNCHANGED <<taxVars, markVars>>
    /\ UNCHANGED <<sourceVars, command, noteVars>>

\* lines 169-170 and 214-219: return [] for no tasks, unique_tasks otherwise
DedupReturn ==
    /\ pc = "dedup"
    /\ idx > Len(tasks)
    /\ pc' = "returned"
    /\ UNCHANGED <<min_tasks, p1_flag, capacity, max_tasks, now, tasks,
                   unique_tasks, idx, merged_count, first_result, calls,
                   all_tasks, critical, non_critical, matched, recommended>>
    /\ UNCHANGED <<taxVars, markVars>>
    /\ UNCHANGED <<sourceVars, command, noteVars>>

\* the caller passes the returned list to deduplicate_tasks again
DedupAgain ==
    /\ pc = "returned"
    /\ calls = 1
    /\ first_result' = unique_tasks
    /\ tasks' = unique_tasks
    /\ unique_tasks' = <<>>
    /\ idx' = 1
    /\ merged_count' = 0
    /\ calls' = 2
    /\ pc' = "dedup"
    /\ UNCHANGED <<min_tasks, p1_flag, capacity, max_tasks, now, all_tasks,
                   critical, non_critical, matched, recommended>>
    /\ UNCHANGED <<taxVars, markVars>>
    /\ UNCHANGED <<sourceVars, command, noteVars>>

NextDedup ==
    \/ DedupIterate
    \/ DedupReturn
    \/ DedupAgain

SpecDedup == InitDedup /\ [][NextDedup]_vars

(***************************************************************************)
(* SpecTax: calculate_attention_tax called twice on one task, under a      *)
(* configuration whose tables may lack keys.                               *)
(***************************************************************************)
\* config['attention_tax'] as a configuration file may give it
TaxConfigs ==
    [priority_base : {priority_base, [P1 |-> 5, P2 |-> 4]},
     energy_multiplier : {energy_multiplier, [low |-> 10]},
     deadline_multiplier : {deadline_multiplier, [has_deadline |-> 15],
                            [no_deadline |-> 10]}]

\* tasks whose priority and energy are, or are not, keys of the tables
TaxPool ==
    {Task("core_31", <<"M", "a", "p">>, p, e, a, d, "obsidian", NoMeta) :
        p \in {"P1", "P2", "P3", "P4", "P9"}, e \in Levels \cup {"none"},
        a \in {"low", "high"}, d \in {NoDue, DueAt(Day(1))}}

InitTax ==
    /\ pc = "idle"
    /\ min_tasks = 0
    /\ p1_flag = TRUE
    /\ capacity = NoCapacity
    /\ max_tasks = 0
    /\ now = 0
    /\ \E task \in TaxPool : tasks = <<task>>
    /\ unique_tasks = <<>>
    /\ idx = 0
    /\ merged_count = 0
    /\ first_result = <<>>
    /\ calls = 0
    /\ all_tasks = <<>>
    /\ critical = <<>>
    /\ non_critical = <<>>
    /\ matched = <<>>
    /\ recommended = <<>>
    /\ config \in TaxConfigs
    /\ scores = <<>>
    /\ MarkIdle
    /\ SourcesIdle
    /\ command = ""
    /\ NoteIdle

\* one call of calculate_attention_tax(tasks[1]): it raises KeyError or returns
TaxCall ==
    /\ pc = "idle"
    /\ calls < 2
    /\ calls' = calls + 1
    /\ IF TaxRaises(config, tasks[1])
       THEN /\ pc' = "raised"
            /\ UNCHANGED scores
       ELSE /\ scores' = Append(scores, AttentionTax(config, tasks[1]))
            /\ UNCHANGED pc
    /\ UNCHANGED <<min_tasks, p1_flag, capacity, max_tasks, now, tasks,
                   unique_tasks, idx, merged_count, first_result, all_tasks,
                   critical, non_critical, matched, recommended, config>>
    /\ UNCHANGED markVars
    /\ UNCHANGED <<sourceVars, command, noteVars>>

NextTax == TaxCall

SpecTax == InitTax /\ [][NextTax]_vars

(***************************************************************************)
(* SpecMark: one call of mark_complete(task_id, systems), one iteration of *)
(* its loop over the systems per step.                                     *)
(***************************************************************************)
\* system names a caller may pass: the three known ones and an unknown one
SystemNames == {"todoist", "obsidian", "daily_note", "jira"}

\* the systems argument: omitted, or a list of at most MaxSystems names
SystemArgs ==
    {NoSystems} \cup
    {[given |-> TRUE, names |-> s] : s \in UNION {[1..k -> SystemNames] : k \in 0..MaxSystems}}

\* an id that no task of the stores carries
MissingId == "obs_404"

\* index sequences that keep the order of the backing store
StoreSeqs(pool, n) ==
    {order \in InjSeqs(pool, n) :
        \A i, j \in 1..Len(order) : i < j => order[i] < order[j]}

\* FindTask that falls back to the first task of the list
FindTaskOrFirst(ts, id) ==
    LET hits == {i \in 1..Len(ts) : ts[i].id = id}
    IN IF ts = <<>> THEN <<>>
       ELSE IF hits = {} THEN <<ts[1]>>
       ELSE <<ts[CHOOSE i \in hits : \A j \in hits : i <= j]>>

\* lines 525-529: the first task with this id, <<>> for None
FindTask(ts, id) ==
    LET hits == {i \in 1..Len(ts) : ts[i].id = id}
    IN IF hits = {} THEN <<>>
       ELSE <<ts[CHOOSE i \in hits : \A j \in hits : i <= j]>>

\* ObsidianIntegration.mark_complete: not implemented, returns False
ObsidianMarkComplete == FALSE

InitMark ==
    /\ pc = "idle"
    /\ min_tasks = 0
    /\ p1_flag = TRUE
    /\ capacity = NoCapacity
    /\ max_tasks = 0
    /\ now = 0
    /\ tasks = <<>>
    /\ unique_tasks = <<>>
    /\ idx = 0
    /\ merged_count = 0
    /\ first_result = <<>>
    /\ calls = 0
    /\ all_tasks = <<>>
    /\ critical = <<>>
    /\ non_critical = <<>>
    /\ matched = <<>>
    /\ recommended = <<>>
    /\ TaxIdle
    /\ MarkIdle
    /\ SourcesIdle
    /\ command = ""
    /\ NoteIdle

\* lines 519-545: aggregate, find the task, return False if there is none,
\* else resolve the systems and reset the counters
MarkFind ==
    /\ pc = "idle"
    /\ \E obs \in StoreSeqs(ObsidianPool, MaxTasks),
          todo \in StoreSeqs(TodoistPool, MaxTasks),
          daily \in StoreSeqs(DailyNotePool, MaxTasks) :
        /\ Len(obs) + Len(todo) + Len(daily) <= MaxTasks
        /\ all_tasks' = AggregateTasks(obs, todo, daily)
    /\ task_id' \in Ids(all_tasks') \cup {MissingId}
    /\ target_task' = FindTask(all_tasks', task_id')
    /\ \E arg \in SystemArgs :
          IF target_task' = <<>>
          THEN /\ systems' = arg
               /\ result' = <<FALSE>>
               /\ pc' = "marked"
          ELSE /\ systems' = IF arg.given THEN arg
                             ELSE [arg EXCEPT !.names = target_task'[1].source_systems]
               /\ result' = <<>>
               /\ pc' = "marking"
    /\ success_count' = 0
    /\ attempted' = <<>>
    /\ idx' = 1
    /\ UNCHANGED <<min_tasks, p1_flag, capacity, max_tasks, now, tasks,
                   unique_tasks, merged_count, first_result, calls, critical,
                   non_critical, matched, recommended>>
    /\ UNCHANGED taxVars
    /\ UNCHANGED <<sourceVars, command, noteVars>>

\* lines 548-569: one iteration of  for system in systems
MarkSystem ==
    /\ pc = "marking"
    /\ idx <= Len(systems.names)
    /\ \E ok \in BOOLEAN :
          /\ CASE systems.names[idx] = "todoist" -> TRUE
               [] systems.names[idx] = "obsidian" -> ok = ObsidianMarkComplete
               [] systems.names[idx] = "daily_note" -> ok = TRUE
               [] OTHER -> ok = FALSE
          /\ attempted' = Append(attempted, [system |-> systems.names[idx], ok |-> ok])
          /\ success_count' = IF ok THEN success_count + 1 ELSE success_count
    /\ idx' = idx + 1
    /\ UNCHANGED <<pc, min_tasks, p1_flag, capacity, max_tasks, now, tasks,
                   unique_tasks, merged_count, first_result, calls, all_tasks,
                   critical, non_critical, matched, recommended, task_id,
                   systems, target_task, result>>
    /\ UNCHANGED taxVars
    /\ UNCHANGED <<sourceVars, command, noteVars>>

\* lines 571-582: report
MarkReport ==
    /\ pc = "marking"
    /\ idx > Len(systems.names)
    /\ result' = IF success_count = Len(systems.names) THEN <<TRUE>>
                 ELSE IF success_count > 0 THEN <<TRUE>>
                 ELSE <<FALSE>>
    /\ pc' = "marked"
    /\ UNCHANGED <<min_tasks, p1_flag, capacity, max_tasks, now, tasks,
                   unique_tasks, idx, merged_count, first_result, calls,
                   all_tasks, critical, non_critical, matched, recommended,
                   task_id, systems, target_task, success_count, attempted>>
    /\ UNCHANGED taxVars
    /\ UNCHANGED <<sourceVars, command, noteVars>>

NextMark ==
    \/ MarkFind
    \/ MarkSystem
    \/ MarkReport

SpecMark == InitMark /\ [][NextMark]_vars

(***************************************************************************)
(* SpecAggregate: one call of aggregate_tasks over three backing stores,   *)
(* each of which may be missing or unreadable.                             *)
(***************************************************************************)
\* ok: the store exists and parses; missing: the file does not exist;
\* unreadable: reading or parsing it raises inside the adapter
AdapterStates == {"ok", "missing", "unreadable"}

\* get_tasks / get_daily_note_tasks: [] for a missing store and for any
\* exception, the parsed records otherwise
GetTasks(adapter) == IF adapter.state = "ok" THEN adapter.content ELSE <<>>

\* _get_obsidian_tasks, _get_todoist_tasks, _get_daily_note_tasks: one Task per
\* raw record, field by field; attention_tax takes the dataclass default
TaskOfRaw(raw) ==
    [id |-> raw.id, title |-> raw.title, priority |-> raw.priority,
     energy |-> raw.energy, attention |-> raw.attention, due_date |-> raw.due_date,
     source_systems |-> raw.source_systems, attention_tax |-> 0,
     metadata |-> raw.metadata]

TasksOfRaw(raws) == [i \in 1..Len(raws) |-> TaskOfRaw(raws[i])]

\* Aggregate that gives up when an adapter produced nothing
AggregateAllOrNothing(adps, enabled) ==
    IF \E name \in DOMAIN adps : adps[name].state # "ok" THEN <<>>
    ELSE TasksOfRaw(adps.obsidian.content)
         \o (IF enabled THEN TasksOfRaw(adps.todoist.content) ELSE <<>>)
         \o TasksOfRaw(adps.daily_note.content)

\* lines 136-150: Obsidian, then Todoist if enabled, then the daily note
Aggregate(adps, enabled) ==
    TasksOfRaw(GetTasks(adps.obsidian))
    \o (IF enabled THEN TasksOfRaw(GetTasks(adps.todoist)) ELSE <<>>)
    \o TasksOfRaw(GetTasks(adps.daily_note))

InitAggregate ==
    /\ pc = "idle"
    /\ min_tasks = 0
    /\ p1_flag = TRUE
    /\ capacity = NoCapacity
    /\ max_tasks = 0
    /\ now = 0
    /\ tasks = <<>>
    /\ unique_tasks = <<>>
    /\ idx = 0
    /\ merged_count = 0
    /\ first_result = <<>>
    /\ calls = 0
    /\ all_tasks = <<>>
    /\ critical = <<>>
    /\ non_critical = <<>>
    /\ matched = <<>>
    /\ recommended = <<>>
    /\ TaxIdle
    /\ MarkIdle
    /\ \E obs \in StoreSeqs(ObsidianPool, MaxTasks),
          todo \in StoreSeqs(TodoistPool, MaxTasks),
          daily \in StoreSeqs(DailyNotePool, MaxTasks) :
        /\ Len(obs) + Len(todo) + Len(daily) <= MaxTasks
        /\ \E so, st, sd \in AdapterStates :
              adapters = [obsidian |-> [state |-> so, content |-> SubPool(ObsidianPool, obs)],
                          todoist |-> [state |-> st, content |-> SubPool(TodoistPool, todo)],
                          daily_note |-> [state |-> sd, content |-> SubPool(DailyNotePool, daily)]]
    /\ todoist_enabled \in BOOLEAN
    /\ command = ""
    /\ NoteIdle

\* lines 129-150
AggregateCall ==
    /\ pc = "idle"
    /\ tasks' = Aggregate(adapters, todoist_enabled)
    /\ pc' = "done"
    /\ UNCHANGED <<min_tasks, p1_flag, capacity, max_tasks, now, unique_tasks,
                   idx, merged_count, first_result, calls, all_tasks, critical,
                   non_critical, matched, recommended>>
    /\ UNCHANGED <<taxVars, markVars, sourceVars, command, noteVars>>

NextAggregate == AggregateCall

SpecAggregate == InitAggregate /\ [][NextAggregate]_vars

(***************************************************************************)
(* SpecReport: one operation that reads attention_tax: recommend_next_     *)
(* actions, sync_dashboard, or the list or status command.                 *)
(***************************************************************************)
ReportCommands == {"sync_dashboard", "list", "status"}

\* the list command's --source and --priority filters ('all' keeps every task)
FilterBySource(ts, source) ==
    IF source = "all" THEN ts
    ELSE SelectSeq(ts, LAMBDA t : InList(source, t.source_systems))

FilterByPriority(ts, priority) ==
    IF priority = "all" THEN ts ELSE SelectSeq(ts, LAMBDA t : t.priority = priority)

\* the list command's sort key: (priority_order.get(priority, 4), attention_tax)
priority_order == [P1 |-> 0, P2 |-> 1, P3 |-> 2, P4 |-> 3]

ListKeyLess(a, b) ==
    LET pa == Get(priority_order, a.priority, 4)
        pb == Get(priority_order, b.priority, 4)
    IN pa < pb \/ (pa = pb /\ a.attention_tax < b.attention_tax)

\* sync_dashboard lines 921-926, list lines 1261-1277, status lines 1326-1331:
\* aggregate, deduplicate, (list: filter,) score every task
ReportLoad ==
    /\ pc = "idle"
    /\ command' \in ReportCommands
    /\ \E obs \in StoreSeqs(ObsidianPool, MaxTasks),
          todo \in StoreSeqs(TodoistPool, MaxTasks),
          daily \in StoreSeqs(DailyNotePool, MaxTasks) :
        /\ Len(obs) + Len(todo) + Len(daily) <= MaxTasks
        /\ tasks' = AggregateTasks(obs, todo, daily)
    /\ unique_tasks' = DeduplicateTasks(tasks')
    /\ IF command' = "list"
       THEN \E source \in {"all", "obsidian", "todoist", "daily_note"},
               priority \in {"all", "P1", "P2", "P3", "P4"} :
                all_tasks' = ScoreAll(FilterByPriority(
                                 FilterBySource(unique_tasks', source), priority))
       ELSE all_tasks' = ScoreAll(unique_tasks')
    /\ pc' = "report_scored"
    /\ UNCHANGED <<min_tasks, p1_flag, capacity, max_tasks, now, idx, merged_count,
                   first_result, calls, critical, non_critical, matched, recommended>>
    /\ UNCHANGED <<taxVars, markVars, sourceVars, noteVars>>

\* the reads of attention_tax: _identify_critical_tasks (dashboard line 958,
\* status line 1348) and the sorts of one source's group by tax (dashboard
\* line 1012, list line 1309)
ReportRead ==
    /\ pc = "report_scored"
    /\ now' \in Nows
    /\ IF command \in {"sync_dashboard", "status"} /\ SubtractRaises(all_tasks)
       THEN /\ pc' = "raised"
            /\ UNCHANGED <<critical, matched>>
       ELSE /\ pc' = "done"
            /\ critical' = IF command = "list" THEN critical
                           ELSE IdentifyCriticalTasks(all_tasks, p1_flag, now')
            /\ \E source \in {"obsidian", "todoist", "daily_note"} :
                  matched' =
                    CASE command = "sync_dashboard" ->
                           SortByTax(FilterBySource(all_tasks, source))
                      [] command = "list" ->
                           SortedBy(FilterBySource(all_tasks, source), ListKeyLess)
                      [] OTHER -> matched
    /\ UNCHANGED <<min_tasks, p1_flag, capacity, max_tasks, tasks, unique_tasks,
                   idx, merged_count, first_result, calls, all_tasks, non_critical,
                   recommended>>
    /\ UNCHANGED <<taxVars, markVars, sourceVars, command, noteVars>>

NextReport ==
    \/ RecommendLoad
    \/ RecommendClassify
    \/ RecommendSelect
    \/ ReportLoad
    \/ ReportRead

SpecReport == Init /\ [][NextReport]_vars

(***************************************************************************)
(* SpecNote: sync_daily_note called up to MaxSyncs times on one daily      *)
(* note.  A note is the list of its lines (content.split('\n')); no lines  *)
(* at all stands for a missing file.  A line is a sequence of characters;  *)
(* the tags and the metadata of a generated task line are single elements. *)
(***************************************************************************)
MaxSyncs == 2          \* calls of sync_daily_note on one note

StartsWith(s, prefix) == Len(prefix) <= Len(s) /\ SubSeq(s, 1, Len(prefix)) = prefix

EndsWith(s, suffix) ==
    Len(suffix) <= Len(s) /\ SubSeq(s, Len(s) - Len(suffix) + 1, Len(s)) = suffix

TasksHeading == <<"#", "#", " ", "T", "a", "s", "k", "s">>

SecondLevel == <<"#", "#", " ">>

PlanningHeading == <<"#", "#", " ", "P", "l", "a", "n", "n", "i", "n", "g">>

NotesHeading == <<"#", "#", " ", "N", "o", "t", "e", "s">>

UncheckedBox == <<"-", " ", "[", " ", "]">>

CheckedBox == <<"-", " ", "[", "x", "]">>

Bold == <<"*", "*">>

\* str(n) for the counts in the section headers
Decimal(n) ==
    LET digit == <<"0", "1", "2", "3", "4", "5", "6", "7", "8", "9">>
    IN IF n < 10 THEN <<digit[n + 1]>> ELSE <<digit[(n \div 10) + 1], digit[(n % 10) + 1]>>

\* lines 661 and 697: the checkbox line of a task
TaskLine(task) ==
    UncheckedBox \o <<" ">> \o Bold \o task.title \o Bold
        \o <<" #", task.priority, " #energy/", task.energy,
             " #attention/", task.attention>>

\* lines 664-685 and 700-717: the indented metadata line of a task
MetaLine(task) ==
    <<" ", " ", "-", " ">> \o Bold \o <<"T", "a", "x">> \o Bold
        \o <<": ", "tax, due date and source of ", task.id>>

RECURSIVE TaskLines(_)
TaskLines(ts) ==
    IF ts = <<>> THEN <<>>
    ELSE <<TaskLine(Head(ts)), MetaLine(Head(ts)), <<>>>> \o TaskLines(Tail(ts))

\* _generate_daily_tasks_markdown: the lines joined by '\n'
GenerateDailyTasksMarkdown(critical_tasks, recommended_tasks) ==
    <<TasksHeading, <<>>>>
      \o (IF critical_tasks # <<>>
          THEN <<<<"#", "#", "#", " ">> \o <<"Critical (">> \o Decimal(Len(critical_tasks)) \o <<")">>,
                 <<>>>> \o TaskLines(critical_tasks)
          ELSE <<>>)
      \o (IF recommended_tasks # <<>>
          THEN <<<<"#", "#", "#", " ">> \o <<"Recommended (">> \o Decimal(Len(recommended_tasks))
                     \o <<" capacity-matched)">>,
                 <<>>>> \o TaskLines(recommended_tasks)
          ELSE <<>>)
      \o (IF critical_tasks = <<>> /\ recommended_tasks = <<>>
          THEN <<<<"*No tasks to recommend at this time.*">>, <<>>>>
          ELSE <<>>)

\* line 621:  '\n## Tasks\n' in content or content.startswith('## Tasks\n')
HasTasksSection(content) ==
    \E i \in 1..(Len(content) - 1) : content[i] = TasksHeading

\* content.rstrip(), as lines
RECURSIVE RStripContent(_)
RStripContent(content) ==
    IF Len(content) <= 1 THEN <<RStrip(IF content = <<>> THEN <<>> ELSE content[1])>>
    ELSE IF RStrip(content[Len(content)]) = <<>>
         THEN RStripContent(SubSeq(content, 1, Len(content) - 1))
         ELSE SubSeq(content, 1, Len(content) - 1) \o <<RStrip(content[Len(content)])>>

\* _insert_tasks_section: after the text from the first '## Planning' up to the
\* line before the next line that starts with '## Notes', or else at the end
InsertTasksSection(content, section) ==
    LET planning == {p \in 1..Len(content) : Contains(content[p], PlanningHeading)}
        first == CHOOSE p \in planning : \A q \in planning : p <= q
        notes == IF planning = {} THEN {}
                 ELSE {n \in (first + 1)..Len(content) : StartsWith(content[n], NotesHeading)}
        at == CHOOSE n \in notes : \A m \in notes : n <= m
    IN IF notes # {}
       THEN SubSeq(content, 1, at - 1) \o <<<<>>>> \o section \o <<<<>>>>
                \o SubSeq(content, at, Len(content))
       ELSE RStripContent(content) \o <<<<>>>> \o section \o <<<<>>>>

\* the lookahead  \n## [^T]  at the end of the line before line j
EndsSection(content, j) ==
    /\ StartsWith(content[j], SecondLevel)
    /\ \/ Len(content[j]) >= 4 /\ content[j][4] # "T"
       \/ Len(content[j]) = 3 /\ j < Len(content)

\* re.match(r'- \[.\] \*\*(.+?)\*\*', line): the shortest non-empty text between
\* the bold markers, as a one-element list, or no element for no match
BoxTitle(line, box) ==
    LET open == box \o <<" ">> \o Bold
        ends == {k \in (Len(open) + 1)..(Len(line) - 2) : SubSeq(line, k + 1, k + 2) = Bold}
    IN IF StartsWith(line, open) /\ ends # {}
       THEN <<SubSeq(line, Len(open) + 1, CHOOSE k \in ends : \A m \in ends : k <= m)>>
       ELSE <<>>

\* lines 776-783: the titles of the ticked boxes of the old section
CheckedTasks(old_section) ==
    {BoxTitle(old_section[i], CheckedBox)[1] :
        i \in {k \in 1..Len(old_section) :
                  /\ StartsWith(Strip(old_section[k]), CheckedBox)
                  /\ BoxTitle(old_section[k], CheckedBox) # <<>>}}

\* lines 786-794: one line of the new section, ticked if its title was ticked
PreserveChecked(line, checked_tasks) ==
    IF /\ StartsWith(Strip(line), UncheckedBox)
       /\ BoxTitle(line, UncheckedBox) # <<>>
       /\ BoxTitle(line, UncheckedBox)[1] \in checked_tasks
    THEN CheckedBox \o SubSeq(line, Len(UncheckedBox) + 1, Len(line))
    ELSE line

\* _update_tasks_section: the match of  ## Tasks\n.*?(?=\n## [^T]|\Z)  starts at
\* the first '## Tasks' that ends a line other than the last and runs to the
\* end of the line before the first line, two or more lines further down, that
\* the lookahead accepts, or to the end of the content
UpdateTasksSection(content, new_tasks_section) ==
    LET starts == {i \in 1..(Len(content) - 1) : EndsWith(content[i], TasksHeading)}
        i == CHOOSE s \in starts : \A t \in starts : s <= t
        stops == {j \in (i + 2)..Len(content) : EndsSection(content, j)}
        j == IF stops = {} THEN Len(content) + 1
             ELSE CHOOSE s \in stops : \A t \in stops : s <= t
        before == SubSeq(content[i], 1, Len(content[i]) - Len(TasksHeading))
        old_section == <<TasksHeading>> \o SubSeq(content, i + 1, j - 1)
        checked_tasks == CheckedTasks(old_section)
        new_lines == [k \in 1..Len(new_tasks_section) |->
                         PreserveChecked(new_tasks_section[k], checked_tasks)]
    IN IF starts = {} THEN InsertTasksSection(content, new_tasks_section)
       ELSE SubSeq(content, 1, i - 1)
              \o <<before \o new_lines[1]>> \o Tail(new_lines)
              \o SubSeq(content, j, Len(content))

\* lines 616-626: update the section when the note has one, insert it otherwise
SyncedContent(content, section) ==
    IF HasTasksSection(content) THEN UpdateTasksSection(content, section)
    ELSE InsertTasksSection(content, section)

\* daily notes as they are found on disk
NotePool == {
    \* a day with Planning and Notes and no Tasks section yet
    <<<<"#", " ", "D", "a", "y">>,
     <<"#", "#", " ", "P", "l", "a", "n", "n", "i", "n", "g">>,
     <<"p", "l", "a", "n">>,
     <<"#", "#", " ", "N", "o", "t", "e", "s">>,
     <<"n">>,
     <<>>>>,
    \* no Planning and no Notes section, trailing blank lines
    <<<<"#", " ", "D", "a", "y">>,
     <<"t", "e", "x", "t", " ">>,
     <<>>,
     <<>>>>,
    \* a synced Tasks section between Planning and Notes, Mow ticked
    <<<<"#", "#", " ", "P", "l", "a", "n", "n", "i", "n", "g">>,
     <<"p">>,
     <<>>,
     <<"#", "#", " ", "T", "a", "s", "k", "s">>,
     <<>>,
     <<"-", " ", "[", "x", "]", " ", "*", "*", "M", "o", "w", "*", "*", " ", "#", "P", "3">>,
     <<" ", " ", "-", " ", "m", "e", "t", "a">>,
     <<>>,
     <<"#", "#", " ", "N", "o", "t", "e", "s">>,
     <<"n">>,
     <<>>>>,
    \* a Tasks section followed by a Timeline section that mentions Mow as done
    <<<<"#", "#", " ", "T", "a", "s", "k", "s">>,
     <<>>,
     <<"-", " ", "[", " ", "]", " ", "*", "*", "M", "o", "w", "*", "*", " ", "#", "P", "3">>,
     <<" ", " ", "-", " ", "m", "e", "t", "a">>,
     <<>>,
     <<"#", "#", " ", "T", "i", "m", "e", "l", "i", "n", "e">>,
     <<"-", " ", "[", "x", "]", " ", "*", "*", "M", "o", "w", "*", "*", " ", "#", "P", "3">>,
     <<"#", "#", " ", "N", "o", "t", "e", "s">>,
     <<"n">>,
     <<>>>>,
    \* a Tasks section with a heading straight after its heading line
    <<<<"#", "#", " ", "T", "a", "s", "k", "s">>,
     <<"#", "#", " ", "N", "o", "t", "e", "s">>,
     <<"n">>,
     <<"#", "#", " ", "L", "o", "g">>,
     <<"l">>,
     <<>>>>,
    \* a third-level Tasks heading above the Tasks section
    <<<<"#", "#", "#", " ", "T", "a", "s", "k", "s">>,
     <<"m", "i", "n", "e">>,
     <<"#", "#", " ", "T", "a", "s", "k", "s">>,
     <<>>,
     <<"-", " ", "[", "x", "]", " ", "*", "*", "M", "o", "w", "*", "*", " ", "#", "P", "3">>,
     <<>>,
     <<"#", "#", " ", "N", "o", "t", "e", "s">>,
     <<"n">>,
     <<>>>>,
    \* an indented ticked box, an empty second-level heading, no final newline
    <<<<"#", "#", " ", "T", "a", "s", "k", "s">>,
     <<>>,
     <<" ", " ", "-", " ", "[", "x", "]", " ", "*", "*", "M", "o", "w", "*", "*", " ", "#", "P", "3">>,
     <<"#", "#", " ">>,
     <<"#", "#", " ", "T", "a", "i", "l">>>> }

\* the file as the next sync_daily_note finds it
FileContent == IF updated_note = <<>> THEN note ELSE updated_note

\* the results of get_current_capacity() taken here: energy equal to attention
NoteCapacities == {cap \in Capacities : cap.energy = cap.attention}

InitNote ==
    /\ pc = "note"
    /\ min_tasks \in {0, MaxMinTasks}
    /\ p1_flag = TRUE
    /\ capacity \in NoteCapacities
    /\ max_tasks = MaxMaxTasks
    /\ now = 0
    /\ \E obs \in StoreSeqs(ObsidianPool, MaxTasks),
          todo \in StoreSeqs(TodoistPool, MaxTasks),
          daily \in StoreSeqs(DailyNotePool, MaxTasks) :
        /\ Len(obs) + Len(todo) + Len(daily) <= MaxTasks
        /\ tasks = AggregateTasks(obs, todo, daily)
    /\ unique_tasks = <<>>
    /\ idx = 0
    /\ merged_count = 0
    /\ first_result = <<>>
    /\ calls = 0
    /\ all_tasks = <<>>
    /\ critical = <<>>
    /\ non_critical = <<>>
    /\ matched = <<>>
    /\ recommended = <<>>
    /\ TaxIdle
    /\ MarkIdle
    /\ SourcesIdle
    /\ command = ""
    /\ note \in NotePool \cup {<<>>}
    /\ tasks_section = <<>>
    /\ updated_note = <<>>

\* lines 601-603: the daily note does not exist, return False
SyncMissingNote ==
    /\ pc \in {"note", "synced"}
    /\ calls < MaxSyncs
    /\ FileContent = <<>>
    /\ pc' = "sync_failed"
    /\ calls' = calls + 1
    /\ UNCHANGED <<min_tasks, p1_flag, capacity, max_tasks, now, tasks, unique_tasks,
                   idx, merged_count, first_result, all_tasks, critical,
                   non_critical, matched, recommended>>
    /\ UNCHANGED <<taxVars, markVars, sourceVars, command, noteVars>>

\* lines 609-635: recommend, generate the section, read the note, update or
\* insert the section, write the note back
SyncDailyNote ==
    /\ pc \in {"note", "synced"}
    /\ calls < MaxSyncs
    /\ FileContent # <<>>
    /\ calls' = calls + 1
    /\ unique_tasks' = DeduplicateTasks(tasks)
    /\ all_tasks' = ScoreAll(FilterBacklog(unique_tasks'))
    /\ now' \in Nows
    /\ IF SubtractRaises(all_tasks')
       THEN /\ pc' = "raised"
            /\ UNCHANGED <<critical, non_critical, matched, recommended, noteVars>>
       ELSE /\ pc' = "synced"
            /\ critical' = IdentifyCriticalTasks(all_tasks', p1_flag, now')
            /\ matched' = SortByTax(FilterByCapacity(NonCritical(all_tasks', critical'),
                                                     capacity))
            /\ recommended' = Recommendations(matched', NonCritical(all_tasks', critical'),
                                              max_tasks, min_tasks)
            /\ non_critical' = IF Len(SliceTo(matched', max_tasks)) < min_tasks
                               THEN SortByTax(NonCritical(all_tasks', critical'))
                               ELSE NonCritical(all_tasks', critical')
            /\ tasks_section' = GenerateDailyTasksMarkdown(critical', recommended')
            /\ note' = FileContent
            /\ updated_note' = SyncedContent(note', tasks_section')
    /\ UNCHANGED <<min_tasks, p1_flag, capacity, max_tasks, tasks, idx,
                   merged_count, first_result>>
    /\ UNCHANGED <<taxVars, markVars, sourceVars, command>>

NextNote ==
    \/ SyncMissingNote
    \/ SyncDailyNote

SpecNote == InitNote /\ [][NextNote]_vars

(***************************************************************************)
(* Properties.                                                             *)
(***************************************************************************)
\* the capacity-matched list after truncation to max_tasks
Truncated == SliceTo(matched, max_tasks)

\* the min_tasks backfill ran and added a task
BackfillAdded == Len(Truncated) < min_tasks /\ Len(recommended) > Len(Truncated)

LevelAtMost(a, b) == a = b \/ a = "low" \/ b = "high"

ExceedsCapacity(task) ==
    ~(LevelAtMost(task.energy, capacity.energy)
      /\ LevelAtMost(task.attention, capacity.attention))

\* the four criteria of a critical task, as documented
DueSoon(task) ==
    task.due_date.has /\ task.due_date.t - now < (due_within_days + 1) * TicksPerDay

P1WithDeadline(task) == p1_flag /\ task.priority = "P1" /\ task.due_date.has

UrgentTitle(task) ==
    \E k \in 1..Len(urgent_keywords) : Contains(Lower(task.title), urgent_keywords[k])

CriticalTagged(task) ==
    /\ "raw_line" \in task.metadata.keys
    /\ \E k \in 1..Len(critical_tags) :
          Contains(task.metadata.raw_line, <<"#">> \o critical_tags[k])

MeetsCriterion(task) ==
    DueSoon(task) \/ P1WithDeadline(task) \/ UrgentTitle(task) \/ CriticalTagged(task)

MarkedBacklog(task) ==
    "raw_line" \in task.metadata.keys /\ Contains(task.metadata.raw_line, BacklogMarker)

\* C1: no task is both in the 'critical' and in the 'recommended' list of
\* recommend_next_actions, backfilled tasks included.
CriticalRecommendedDisjoint ==
    pc = "done" => Ids(critical) \cap Ids(recommended) = {}

\* C1 witness: a result with critical tasks and a backfilled recommended list
CriticalAndBackfilled ==
    pc = "done" /\ critical # <<>> /\ BackfillAdded

\* C2: the 'recommended' list holds at most max_tasks tasks, for every
\* max_tasks and min_tasks.
RecommendedAtMostMaxTasks ==
    pc = "done" => Len(recommended) <= max_tasks

\* C3: when fewer than min_tasks non-critical tasks match the capacity and
\* the non-critical pool has at least min_tasks tasks, 'recommended' has
\* exactly min_tasks tasks.
BackfillReachesMinTasks ==
    (pc = "done" /\ Len(matched) < min_tasks /\ Len(non_critical) >= min_tasks)
        => Len(recommended) = min_tasks

\* C3 witness: one matching task, a pool of three, min_tasks two
BackfillFromLargerPool ==
    /\ pc = "done"
    /\ Len(matched) = 1
    /\ min_tasks = 2
    /\ max_tasks >= 1
    /\ Len(non_critical) = 3

\* C4: the 'recommended' list is in non-decreasing attention_tax order,
\* also when the backfill added tasks.
RecommendedSortedByTax ==
    pc = "done" =>
        \A i \in 1..(Len(recommended) - 1) :
            recommended[i].attention_tax <= recommended[i + 1].attention_tax

\* C5: a deduplicated task whose raw line holds the backlog marker is in
\* neither list and is not among the scored tasks.
BacklogNeverSurfaces ==
    pc = "done" =>
        \A i \in 1..Len(unique_tasks) :
            MarkedBacklog(unique_tasks[i]) =>
                unique_tasks[i].id \notin
                    Ids(critical) \cup Ids(recommended) \cup Ids(all_tasks)

\* C5 witness: a backlog task that meets critical criteria, in a run whose
\* backfill added a task
CriticalBacklogTaskDropped ==
    /\ pc = "done"
    /\ BackfillAdded
    /\ \E i \in 1..Len(unique_tasks) :
          /\ MarkedBacklog(unique_tasks[i])
          /\ UrgentTitle(unique_tasks[i])
          /\ P1WithDeadline(unique_tasks[i])

\* C6: _identify_critical_tasks returns exactly the input tasks that meet
\* at least one of the four criteria.
CriticalIffCriterion ==
    pc = "done" =>
        /\ \A i \in 1..Len(tasks) : InList(tasks[i], critical) <=> MeetsCriterion(tasks[i])
        /\ Len(critical) = Cardinality({i \in 1..Len(tasks) : MeetsCriterion(tasks[i])})

\* C6 witness: a task critical by its keyword alone, one by the due-date
\* boundary alone, and one meeting no criterion
KeywordOnlyCritical ==
    /\ pc = "done"
    /\ \E i, j, k \in 1..Len(tasks) :
          /\ UrgentTitle(tasks[i]) /\ tasks[i].due_date.has
          /\ ~DueSoon(tasks[i]) /\ ~P1WithDeadline(tasks[i]) /\ ~CriticalTagged(tasks[i])
          /\ InList(tasks[i], critical)
          /\ DueSoon(tasks[j]) /\ tasks[j].due_date.t - now >= due_within_days * TicksPerDay
          /\ InList(tasks[j], critical)
          /\ ~MeetsCriterion(tasks[k]) /\ ~InList(tasks[k], critical)

\* C7: every scored task that meets a critical criterion is in the
\* 'critical' list, whatever the capacity and max_tasks.
CriticalAlwaysSurfaces ==
    pc = "done" =>
        \A i \in 1..Len(all_tasks) :
            MeetsCriterion(all_tasks[i]) => InList(all_tasks[i], critical)

\* C7 witness: more critical tasks than max_tasks, one beyond the capacity
CriticalBeyondCapacity ==
    /\ pc = "done"
    /\ Len(critical) > max_tasks
    /\ max_tasks >= 1
    /\ \E i \in 1..Len(critical) : ExceedsCapacity(critical[i])

\* C8: the result of _identify_critical_tasks is in ascending due-date
\* order, undated tasks last, equal due dates by descending attention_tax.
CriticalOrdered ==
    pc = "done" =>
        \A i, j \in 1..Len(critical) :
            i < j =>
                LET a == critical[i]
                    b == critical[j]
                IN /\ (a.due_date.has /\ b.due_date.has) => a.due_date.t <= b.due_date.t
                   /\ ~a.due_date.has => ~b.due_date.has
                   /\ (a.due_date = b.due_date) => a.attention_tax >= b.attention_tax

\* C8 witness: two tasks due the same day returned in the reverse of their
\* input order, followed by an undated task of higher tax that came first
TieBrokenByHigherTax ==
    /\ pc = "done"
    /\ Len(critical) = 3
    /\ Len(tasks) = 3
    /\ critical[1] = tasks[3]
    /\ critical[2] = tasks[2]
    /\ critical[3] = tasks[1]
    /\ critical[1].due_date = critical[2].due_date
    /\ critical[1].attention_tax > critical[2].attention_tax
    /\ ~critical[3].due_date.has
    /\ critical[3].attention_tax > critical[2].attention_tax

\* C9: _filter_by_capacity returns, in input order, exactly the tasks whose
\* energy and attention are both at most the capacity's.
IndexIn(ts, task) == CHOOSE i \in 1..Len(ts) : ts[i] = task

FilterKeepsExactlyFitting ==
    pc = "done" =>
        /\ \A i \in 1..Len(tasks) : InList(tasks[i], matched) <=> ~ExceedsCapacity(tasks[i])
        /\ Len(matched) = Cardinality({i \in 1..Len(tasks) : ~ExceedsCapacity(tasks[i])})
        /\ \A i, j \in 1..Len(matched) :
              i < j => IndexIn(tasks, matched[i]) < IndexIn(tasks, matched[j])

\* C9 witness: a high-energy task of matching attention excluded at low
\* energy capacity, two other tasks kept
HighEnergyExcluded ==
    /\ pc = "done"
    /\ capacity.energy = "low"
    /\ Len(matched) = 2
    /\ \E i \in 1..Len(tasks) :
          /\ tasks[i].energy = "high"
          /\ tasks[i].attention = capacity.attention
          /\ ~InList(tasks[i], matched)

\* C10: deduplicate_tasks applied to its own result returns the same tasks
\* in the same order and merges nothing.
DedupIdempotent ==
    (pc = "returned" /\ calls = 2) =>
        unique_tasks = first_result /\ merged_count = 0

\* C10 witness: a second call on a result of two tasks, one of which had
\* absorbed a duplicate in the first call
SecondCallAfterMerge ==
    /\ pc = "returned"
    /\ calls = 2
    /\ Len(first_result) = 2
    /\ \E i \in 1..Len(first_result) : Len(first_result[i].source_systems) = 2

\* the set of a task's source systems
SourceSet(task) == {task.source_systems[i] : i \in 1..Len(task.source_systems)}

\* C11: for two tasks whose titles are equal after lower-casing and trimming,
\* deduplicate_tasks returns exactly one task in either input order, and the
\* set of that task's source_systems is the union of the two tasks' sources.
EqualTitlesMergeEitherOrder ==
    (/\ pc = "returned"
     /\ calls = 1
     /\ Len(tasks) = 2
     /\ NormTitle(tasks[1].title) = NormTitle(tasks[2].title)) =>
        LET swapped == DeduplicateTasks(<<tasks[2], tasks[1]>>)
            both == SourceSet(tasks[1]) \cup SourceSet(tasks[2])
        IN /\ Len(unique_tasks) = 1
           /\ SourceSet(unique_tasks[1]) = both
           /\ Len(swapped) = 1
           /\ SourceSet(swapped[1]) = both

\* C11 witness: two tasks of different systems whose titles differ only in case
\* and surrounding blanks were merged into one task carrying both systems
EqualTitlesFromTwoSystemsMerged ==
    /\ pc = "returned"
    /\ calls = 1
    /\ Len(tasks) = 2
    /\ tasks[1].title # tasks[2].title
    /\ NormTitle(tasks[1].title) = NormTitle(tasks[2].title)
    /\ SourceSet(tasks[1]) # SourceSet(tasks[2])
    /\ Len(unique_tasks) = 1
    /\ Cardinality(SourceSet(unique_tasks[1])) = 2

\* 100 * ratio() of two non-empty normalized titles, rounded down
RatioPercent(a, b) == (200 * Matches(a, b)) \div (Len(a) + Len(b))

\* the incoming task and kept task u have different normalized titles
TitlesDiffer(task, u) == NormTitle(task.title) # NormTitle(unique_tasks[u].title)

\* the ratio of the incoming task's and kept task u's normalized titles, in percent
RatioWithKept(task, u) ==
    RatioPercent(NormTitle(task.title), NormTitle(unique_tasks[u].title))

EveryMergeRecordsAbsorbed ==
    [][(pc = "dedup" /\ idx' = idx + 1 /\ merged_count' = merged_count + 1) =>
        \E u \in 1..Len(unique_tasks) :
            /\ "merged_from" \in unique_tasks'[u].metadata.keys
            /\ unique_tasks'[u].metadata.merged_from =
                   Append(unique_tasks[u].metadata.merged_from,
                          [title |-> tasks[idx].title,
                           sources |-> tasks[idx].source_systems,
                           metadata |-> tasks[idx].metadata])
            /\ \A v \in 1..Len(unique_tasks) :
                   v # u => unique_tasks'[v].metadata = unique_tasks[v].metadata
       ]_vars

\* the fields a merge must not touch
Primary(task) ==
    <<task.id, task.title, task.priority, task.energy, task.attention, task.due_date>>

\* C14: a merge leaves the kept task's id, title, priority, energy, attention
\* and due_date unchanged, and a task that is kept enters the list as it came
\* in: every kept task has the primary fields of the first task of its group.
FirstSeenWins ==
    [][(pc = "dedup" /\ idx' = idx + 1) =>
        /\ Len(unique_tasks') >= Len(unique_tasks)
        /\ \A u \in 1..Len(unique_tasks) :
               Primary(unique_tasks'[u]) = Primary(unique_tasks[u])
        /\ Len(unique_tasks') > Len(unique_tasks) =>
               unique_tasks' = Append(unique_tasks, tasks[idx])
       ]_vars

\* C14 witness: a medium/medium task with a due date absorbed a low/low task
\* without one whose title differs in case and trailing blank, and is still
\* medium/medium with its due date
LaterLevelsDiscarded ==
    /\ pc = "returned"
    /\ calls = 1
    /\ Len(tasks) = 2
    /\ tasks[1].energy = "medium" /\ tasks[1].attention = "medium"
    /\ tasks[1].due_date.has
    /\ tasks[2].energy = "low" /\ tasks[2].attention = "low"
    /\ ~tasks[2].due_date.has
    /\ Len(unique_tasks) = 1
    /\ Primary(unique_tasks[1]) = Primary(tasks[1])
    /\ Len(unique_tasks[1].source_systems) = 2

\* no value occurs twice in the list
DuplicateFree(s) == \A i, j \in 1..Len(s) : s[i] = s[j] => i = j

\* C15: during deduplicate_tasks a kept task's source_systems only grows: a
\* merge keeps every value that was present, in place, the absorbed task's
\* sources are present afterwards, and with duplicate-free inputs every kept
\* task's source_systems stays duplicate-free.
SourcesOnlyGrow ==
    [][(pc = "dedup" /\ idx' = idx + 1) =>
        /\ \A u \in 1..Len(unique_tasks) :
               LET before == unique_tasks[u].source_systems
                   after == unique_tasks'[u].source_systems
               IN /\ Len(after) >= Len(before)
                  /\ SubSeq(after, 1, Len(before)) = before
        /\ merged_count' = merged_count + 1 =>
               \E u \in 1..Len(unique_tasks) :
                   SourceSet(tasks[idx]) \subseteq SourceSet(unique_tasks'[u])
        /\ (\A i \in 1..Len(tasks) : DuplicateFree(tasks[i].source_systems)) =>
               \A u \in 1..Len(unique_tasks') :
                   DuplicateFree(unique_tasks'[u].source_systems)
       ]_vars

\* C15 witness: one kept task absorbed two tasks, the second of which brought
\* a source that was already present, and lists two sources
AbsorbedTwiceTwoSources ==
    /\ pc = "returned"
    /\ calls = 1
    /\ Len(tasks) = 3
    /\ merged_count = 2
    /\ Len(unique_tasks) = 1
    /\ tasks[3].source_systems = tasks[2].source_systems
    /\ tasks[2].source_systems # tasks[1].source_systems
    /\ Len(unique_tasks[1].source_systems) = 2

\* priority_base[priority] x energy_multiplier[energy] x deadline_multiplier[key]
\* with the defaults 2 and 1.0 for an absent priority or energy, times 100
ExpectedTax(cfg, task) ==
    (IF task.priority \in DOMAIN cfg.priority_base
     THEN cfg.priority_base[task.priority] ELSE 2)
    * (IF task.energy \in DOMAIN cfg.energy_multiplier
       THEN cfg.energy_multiplier[task.energy] ELSE 10)
    * (IF task.due_date.has THEN cfg.deadline_multiplier["has_deadline"]
       ELSE cfg.deadline_multiplier["no_deadline"])

\* C16: calculate_attention_tax returns priority_base[priority] x
\* energy_multiplier[energy] x deadline_multiplier[has_deadline or no_deadline],
\* with the default base for a priority that is no key and 1.0 for an energy
\* that is no key; two calls return the same value, neither the task nor the
\* configuration is modified, and P1/high with a due date scores 15 under
\* P1=5, high=2.0, has_deadline=1.5.
TaxIsProductOfLookups ==
    /\ [](/\ \A i \in 1..Len(scores) : scores[i] = ExpectedTax(config, tasks[1])
          /\ (/\ scores # <<>>
              /\ config = attention_tax_config
              /\ tasks[1].priority = "P1"
              /\ tasks[1].energy = "high"
              /\ tasks[1].due_date.has) => scores[1] = 1500)
    /\ [][tasks' = tasks /\ config' = config]_vars

\* C16 witness: two calls returned for a task whose priority and energy are
\* keys of neither table
ScoredTwiceWithDefaults ==
    /\ Len(scores) = 2
    /\ tasks[1].priority \notin DOMAIN config.priority_base
    /\ tasks[1].energy \notin DOMAIN config.energy_multiplier
    /\ scores[1] = 2 * 10 * config.deadline_multiplier[DeadlineKey(tasks[1])]

\* C17: calculate_attention_tax never fails because a key is absent from a
\* configured table: a priority missing from priority_base, an energy missing
\* from energy_multiplier or a deadline key missing from deadline_multiplier
\* gives a score computed with a default, not an exception.
TaxLookupNeverRaises == pc # "raised"

\* the systems the loop of mark_complete handled
AttemptedSystems == {attempted[i].system : i \in 1..Len(attempted)}

\* some system handled by the loop was counted as a success
SomeSystemSucceeded == \E i \in 1..Len(attempted) : attempted[i].ok

\* C18: mark_complete on a task id that exists returns true if and only if at
\* least one of the named systems reported a successful completion: true on
\* partial success, false when every named system fails or is unknown, false
\* when the list of systems is empty.
TrueIffSomeSystemSucceeded ==
    (pc = "marked" /\ task_id \in Ids(all_tasks)) =>
        (result = <<TRUE>> <=> SomeSystemSucceeded)

\* C19: mark_complete on a task id that no aggregated task carries returns
\* false, does not raise, and invokes mark_complete on no source collaborator.
UnknownIdReturnsFalse ==
    /\ pc \in {"idle", "marking", "marked"}
    /\ task_id \notin Ids(all_tasks) =>
          /\ pc \in {"idle", "marked"}
          /\ attempted = <<>>
          /\ success_count = 0
          /\ pc = "marked" => result = <<FALSE>>

\* C19 witness: the call returned for an id absent from a non-empty list of
\* tasks, with systems named by the caller
UnknownIdAmongTasks ==
    /\ pc = "marked"
    /\ all_tasks # <<>>
    /\ task_id \notin Ids(all_tasks)
    /\ systems.given
    /\ systems.names # <<>>
    /\ result = <<FALSE>>

\* C20: with systems omitted, mark_complete(task_id) attempts completion in
\* every source system of the task with that id as recommend_next_actions and
\* deduplicate_tasks return it, the systems merged in from duplicates included.
OmittedSystemsCoverMergedSources ==
    (pc = "marked" /\ ~systems.given /\ task_id \in Ids(all_tasks)) =>
        LET unique == DeduplicateTasks(all_tasks)
        IN \A u \in 1..Len(unique) :
               unique[u].id = task_id => SourceSet(unique[u]) \subseteq AttemptedSystems

\* what an adapter contributes: its store's tasks when the store is available
\* (and, for Todoist, the integration is enabled), nothing otherwise
Contribution(name) ==
    IF adapters[name].state = "ok" /\ (name = "todoist" => todoist_enabled)
    THEN adapters[name].content ELSE <<>>

\* C21: aggregate_tasks returns the Obsidian database tasks, then the Todoist
\* tasks (only when Todoist is enabled), then the daily-note tasks, each in its
\* adapter's order and untransformed; an adapter that is unavailable or fails to
\* parse contributes nothing, the others' tasks are all returned, and no
\* exception reaches the caller.
AggregateConcatenatesAvailable ==
    /\ pc \in {"idle", "done"}
    /\ pc = "done" =>
          tasks = Contribution("obsidian") \o Contribution("todoist")
                    \o Contribution("daily_note")

\* C21 witness: the Obsidian database failed to parse while Todoist and the
\* daily note each produced a task, and both tasks were returned in that order
OthersReturnedDespiteFailure ==
    /\ pc = "done"
    /\ adapters.obsidian.state = "unreadable"
    /\ adapters.obsidian.content # <<>>
    /\ todoist_enabled
    /\ adapters.todoist.state = "ok"
    /\ adapters.daily_note.state = "ok"
    /\ Len(tasks) = 2
    /\ tasks[1].source_systems = <<"todoist">>
    /\ tasks[2].source_systems = <<"daily_note">>

\* the task carries the score calculate_attention_tax gives it now, not the
\* dataclass default
FreshlyScored(task) ==
    /\ task.attention_tax = ExpectedTax(config, task)
    /\ task.attention_tax # 0

AllFreshlyScored(ts) == \A i \in 1..Len(ts) : FreshlyScored(ts[i])

\* C22: in every operation that reads attention_tax to sort, filter or classify
\* (recommend_next_actions, the dashboard sync, the list and status commands),
\* every task handed to the critical classifier or to a tax-based sort has had
\* attention_tax set to calculate_attention_tax(task) earlier in that operation.
TaxComputedBeforeRead ==
    /\ pc \in {"scored", "classified", "report_scored", "done", "raised"} =>
          AllFreshlyScored(all_tasks)
    /\ AllFreshlyScored(critical)
    /\ AllFreshlyScored(non_critical)
    /\ AllFreshlyScored(matched)
    /\ AllFreshlyScored(recommended)

\* C22 witness: the dashboard sync classified and sorted two scored tasks
DashboardReadScoredTasks ==
    /\ pc = "done"
    /\ command = "sync_dashboard"
    /\ Len(matched) = 2
    /\ critical # <<>>
    /\ matched[1].attention_tax < matched[2].attention_tax

\* C23: recommend_next_actions returns its {critical, recommended} result
\* without raising for every task list the adapters can produce, lists holding
\* a Todoist task with a timed (timezone-aware) due date included.
RecommendReturnsForTimedDueDates ==
    (\E i \in 1..Len(all_tasks) :
        /\ all_tasks[i].due_date.has
        /\ all_tasks[i].due_date.aware
        /\ InList("todoist", all_tasks[i].source_systems))
      => pc # "raised"

\* the kept tasks the incoming task matches: equal normalized title or ratio >= 0.80
KeptMatches(task) ==
    {u \in 1..Len(unique_tasks) :
        ~TitlesDiffer(task, u) \/ RatioWithKept(task, u) >= 80}

\* C24: in deduplicate_tasks each incoming task is merged into at most one kept
\* task, the earliest-inserted kept task that matches it; later kept tasks
\* receive nothing from it, and when no kept task matches the incoming task is
\* appended to the end of the kept list unchanged.
EarliestMatchAbsorbs ==
    [][(pc = "dedup" /\ idx' = idx + 1) =>
        LET task == tasks[idx]
            hits == KeptMatches(task)
        IN /\ Cardinality({u \in 1..Len(unique_tasks) :
                              unique_tasks'[u] # unique_tasks[u]}) <= 1
           /\ hits # {} =>
                 /\ Len(unique_tasks') = Len(unique_tasks)
                 /\ merged_count' = merged_count + 1
                 /\ \A v \in 1..Len(unique_tasks) :
                        (\E u \in hits : u < v) => unique_tasks'[v] = unique_tasks[v]
                 /\ \A v \in 1..Len(unique_tasks) :
                        v \notin hits => unique_tasks'[v] = unique_tasks[v]
           /\ hits = {} =>
                 /\ unique_tasks' = Append(unique_tasks, task)
                 /\ merged_count' = merged_count
       ]_vars

\* C24 witness: the third task matched both kept tasks, which do not match one
\* another; the first absorbed it and the second is as it came in
MatchedTwoMergedIntoFirst ==
    /\ pc = "dedup"
    /\ calls = 1
    /\ idx = 4
    /\ RatioPercent(NormTitle(tasks[2].title), NormTitle(tasks[1].title)) < 80
    /\ RatioPercent(NormTitle(tasks[3].title), NormTitle(tasks[1].title)) >= 80
    /\ RatioPercent(NormTitle(tasks[3].title), NormTitle(tasks[2].title)) >= 80
    /\ Len(unique_tasks) = 2
    /\ unique_tasks[2] = tasks[2]
    /\ unique_tasks[1] # tasks[1]
    /\ SourceSet(tasks[3]) \subseteq SourceSet(unique_tasks[1])

\* the tasks the backfill appended after the truncated capacity matches
BackfilledTasks == SubSeq(recommended, Len(Truncated) + 1, Len(recommended))

\* the non-critical tasks that are not recommended
LeftOut ==
    {all_tasks[i] : i \in {k \in 1..Len(all_tasks) :
        ~InList(all_tasks[k], critical) /\ ~InList(all_tasks[k], recommended)}}

\* C25: when backfill runs in recommend_next_actions, the tasks it adds are
\* non-critical tasks in ascending attention_tax order, none already in the
\* list: no task appears twice in 'recommended', and no non-critical task left
\* out has a strictly lower attention_tax than a task that backfill added.
BackfillTakesLowestTaxFirst ==
    (pc = "done" /\ Len(Truncated) < min_tasks) =>
        /\ SubSeq(recommended, 1, Len(Truncated)) = Truncated
        /\ \A i \in 1..Len(BackfilledTasks) :
              /\ InList(BackfilledTasks[i], all_tasks)
              /\ ~InList(BackfilledTasks[i], critical)
              /\ ~InList(BackfilledTasks[i], Truncated)
        /\ \A i, j \in 1..Len(BackfilledTasks) :
              i < j => BackfilledTasks[i].attention_tax <= BackfilledTasks[j].attention_tax
        /\ DuplicateFree(recommended)
        /\ \A t \in LeftOut : \A i \in 1..Len(BackfilledTasks) :
              t.attention_tax >= BackfilledTasks[i].attention_tax

\* C25 witness: backfill added a task after one capacity match and left out a
\* non-critical task of strictly higher attention_tax
BackfillSkippedCostlierTask ==
    /\ pc = "done"
    /\ Len(Truncated) = 1
    /\ min_tasks = 2
    /\ Len(recommended) = 2
    /\ \E t \in LeftOut : t.attention_tax > recommended[2].attention_tax

\* the strictly increasing maps of n positions into 1..m
Embeddings(n, m) ==
    {f \in [1..n -> 1..m] : \A u, v \in 1..n : u < v => f[u] < f[v]}

\* C26: deduplicate_tasks returns a subsequence of its input: the kept tasks
\* are input tasks in their original relative order, the first input task is
\* always kept, the number of kept tasks plus the number of merges equals the
\* input length, and an empty input gives an empty output.
DedupReturnsSubsequence ==
    pc \in {"dedup", "returned"} =>
        /\ Len(unique_tasks) + merged_count = idx - 1
        /\ \E f \in Embeddings(Len(unique_tasks), idx - 1) :
              /\ \A u \in 1..Len(unique_tasks) :
                    Primary(unique_tasks[u]) = Primary(tasks[f[u]])
              /\ idx > 1 => f[1] = 1
        /\ idx > 1 => unique_tasks # <<>>
        /\ (pc = "returned" /\ tasks = <<>>) => unique_tasks = <<>>

\* C26 witness: of three tasks the second was merged into the first and the
\* third was kept behind it
MiddleTaskMergedAway ==
    /\ pc = "returned"
    /\ calls = 1
    /\ Len(tasks) = 3
    /\ merged_count = 1
    /\ Len(unique_tasks) = 2
    /\ unique_tasks[1].id = tasks[1].id
    /\ unique_tasks[2].id = tasks[3].id

\* no two kept tasks share a normalized title, and a later kept task's ratio
\* to an earlier one is below 0.80
KeptPairwiseDistinct ==
    \A u, v \in 1..Len(unique_tasks) :
        u < v =>
            /\ NormTitle(unique_tasks[u].title) # NormTitle(unique_tasks[v].title)
            /\ RatioPercent(NormTitle(unique_tasks[v].title),
                            NormTitle(unique_tasks[u].title)) < 80

\* C27: after every step of deduplicate_tasks the kept list holds no two tasks
\* with equal normalized titles and a later kept task has similarity below 0.80
\* to every earlier one; an incoming task whose normalized title equals a kept
\* task's title is merged into that very kept task and into no other.
KeptDistinctAndExactGoesHome ==
    /\ [](pc \in {"dedup", "returned"} => KeptPairwiseDistinct)
    /\ [][(pc = "dedup" /\ idx' = idx + 1) =>
            \A k \in 1..Len(unique_tasks) :
                ~TitlesDiffer(tasks[idx], k) =>
                    /\ Len(unique_tasks') = Len(unique_tasks)
                    /\ merged_count' = merged_count + 1
                    /\ SourceSet(tasks[idx]) \subseteq SourceSet(unique_tasks'[k])
                    /\ \A v \in 1..Len(unique_tasks) :
                           v # k => unique_tasks'[v] = unique_tasks[v]
         ]_vars

\* C27 witness: the third task's title equals the second kept task's after
\* normalization only, and the second kept task absorbed it
ExactTitleMergedIntoSecondKept ==
    /\ pc = "dedup"
    /\ calls = 1
    /\ idx = 4
    /\ Len(unique_tasks) = 2
    /\ tasks[3].title # tasks[2].title
    /\ NormTitle(tasks[3].title) = NormTitle(tasks[2].title)
    /\ unique_tasks[1] = tasks[1]
    /\ unique_tasks[2].id = tasks[2].id
    /\ SourceSet(unique_tasks[2]) = SourceSet(tasks[2]) \cup SourceSet(tasks[3])
    /\ SourceSet(tasks[3]) # SourceSet(tasks[2])

AllFitCapacity(ts) == \A i \in 1..Len(ts) : ~ExceedsCapacity(ts[i])

\* C28: every task in 'recommended' has energy <= capacity.energy and
\* attention <= capacity.attention unless the capacity-matched list truncated
\* to max_tasks had fewer than min_tasks tasks; when at least min_tasks tasks
\* match and max_tasks >= min_tasks, no task exceeding the capacity is
\* recommended.
RecommendedWithinCapacity ==
    pc = "done" =>
        /\ Len(Truncated) >= min_tasks => AllFitCapacity(recommended)
        /\ (Len(matched) >= min_tasks /\ max_tasks >= min_tasks) =>
               AllFitCapacity(recommended)

\* C28 witness: min_tasks matching tasks were recommended and a non-critical
\* task of lower attention_tax that exceeds the capacity was not
CheaperTaskOverCapacityLeftOut ==
    /\ pc = "done"
    /\ min_tasks >= 1
    /\ max_tasks >= min_tasks
    /\ Len(matched) >= min_tasks
    /\ recommended # <<>>
    /\ \E i \in 1..Len(non_critical) :
          /\ ExceedsCapacity(non_critical[i])
          /\ ~InList(non_critical[i], recommended)
          /\ non_critical[i].attention_tax < recommended[1].attention_tax

\* the line of a note that opens its Tasks section: the first line that is
\* exactly '## Tasks'
TasksLineOf(content) ==
    CHOOSE i \in 1..Len(content) :
        /\ content[i] = TasksHeading
        /\ \A k \in 1..(i - 1) : content[k] # TasksHeading

\* the line after the Tasks section: the next second-level heading of any
\* name, or one past the end
SectionEndOf(content) ==
    LET i == TasksLineOf(content)
        later == {j \in (i + 1)..Len(content) : StartsWith(content[j], SecondLevel)}
    IN IF later = {} THEN Len(content) + 1
       ELSE CHOOSE j \in later : \A k \in later : j <= k

\* what the note holds above and below its Tasks section
AboveTasks(content) == SubSeq(content, 1, TasksLineOf(content) - 1)

BelowTasks(content) == SubSeq(content, SectionEndOf(content), Len(content))

\* the body of the Tasks section
TasksBody(content) == SubSeq(content, TasksLineOf(content) + 1, SectionEndOf(content) - 1)

\* C29: _update_tasks_section replaces only the '## Tasks' section of the daily
\* note: every other section, whatever its heading (a following second-level
\* heading whose name begins with 'T' included), is present and unchanged in the
\* content written back, also when sync_daily_note is repeated.
OnlyTasksSectionReplaced ==
    (pc = "synced" /\ HasTasksSection(note)) =>
        /\ Len(updated_note) >= Len(AboveTasks(note)) + 1 + Len(BelowTasks(note))
        /\ StartsWith(updated_note, AboveTasks(note))
        /\ EndsWith(updated_note, BelowTasks(note))

\* the checkbox line of a title, ticked or not
BoxLine(box, title) == box \o <<" ">> \o Bold \o title \o Bold

HasBox(lines, box, title) ==
    \E k \in 1..Len(lines) : StartsWith(lines[k], BoxLine(box, title))

\* C30: when sync_daily_note regenerates an existing '## Tasks' section, every
\* task that was checked ('- [x]') in the old section and is still listed in
\* the new section stays checked, and a task that was unchecked in the old
\* section is never turned into a checked one.
CheckedStaysUncheckedStays ==
    (pc = "synced" /\ HasTasksSection(note) /\ HasTasksSection(updated_note)) =>
        \A t \in {(critical \o recommended)[k] : k \in 1..(Len(critical) + Len(recommended))} :
            /\ HasBox(TasksBody(note), CheckedBox, t.title) =>
                   HasBox(TasksBody(updated_note), CheckedBox, t.title)
            /\ (/\ HasBox(TasksBody(note), UncheckedBox, t.title)
                /\ ~HasBox(TasksBody(note), CheckedBox, t.title)) =>
                   ~HasBox(TasksBody(updated_note), CheckedBox, t.title)

====
